---- MODULE Spec2Model ----
(***************************************************************************)
(* Retailer brand scraper: the text normaliser (src/src/normalize.py), the *)
(* fetcher scrape_brands_from_url and the orchestrator run_pilot           *)
(* (src/src/scraper.py), and the deadline wrapper _run_scraper             *)
(* (src/serve.py).                                                         *)
(*                                                                         *)
(* Strings are sequences of characters; a character is a one-token string. *)
(* Characters outside ASCII are written by code point: "U+00C7" is the     *)
(* capital C with cedilla, "U+00AE" the registered sign, "U+FB01" the      *)
(* ligature fi.                                                            *)
(***************************************************************************)
EXTENDS Integers, Sequences, FiniteSets, TLC

\* Python's None: an optional value is the empty sequence or a one-element
\* sequence; an absent error string is NoError
NoneV == <<>>
Some(x) == <<x>>
NoError == "None"

\* ------------------------------------------------------------------------
\* Characters
\* ------------------------------------------------------------------------
LowerLetters ==
  <<"a","b","c","d","e","f","g","h","i","j","k","l","m",
    "n","o","p","q","r","s","t","u","v","w","x","y","z","U+00E7">>

UpperLetters ==
  <<"A","B","C","D","E","F","G","H","I","J","K","L","M",
    "N","O","P","Q","R","S","T","U","V","W","X","Y","Z","U+00C7">>

Range(s) == { s[i] : i \in DOMAIN s }

DigitChars == {"0","1","2","3","4","5","6","7","8","9"}

SpaceChars == {" ", "\t"}

\* letters whose case mappings are not one upper for one lower:
\* U+0130 (I with dot above) lowers to "i" followed by U+0307 (combining dot
\* above); U+1C90 (Georgian Mtavruli An) lowers to U+10D0 (Mkhedruli An), which
\* upper-cases back to it, and both are their own title case
DottedI  == "U+0130"
DotAbove == "U+0307"
GeorgianUpper == "U+1C90"
GeorgianLower == "U+10D0"

LowerSet == Range(LowerLetters) \cup {GeorgianLower}
UpperSet == Range(UpperLetters) \cup {DottedI, GeorgianUpper}

IsLower(c) == c \in LowerSet
IsUpper(c) == c \in UpperSet
IsCased(c) == IsLower(c) \/ IsUpper(c)

IndexOf(s, c) == CHOOSE i \in DOMAIN s : s[i] = c

\* the simple lower case of the upper-case letters, and the upper case of the
\* lower-case ones
LowerOf ==
  [c \in UpperSet |->
     IF c = GeorgianUpper THEN GeorgianLower
     ELSE IF c = DottedI THEN "i"
     ELSE LowerLetters[IndexOf(UpperLetters, c)]]
UpperOf ==
  [c \in LowerSet |->
     IF c = GeorgianLower THEN GeorgianUpper
     ELSE UpperLetters[IndexOf(LowerLetters, c)]]

LowerChar(c) == IF c \in UpperSet THEN LowerOf[c] ELSE c
UpperChar(c) == IF c \in LowerSet THEN UpperOf[c] ELSE c

\* str.lower() of one character: the full mapping, which may be two characters
LowerSeq(c) == IF c = DottedI THEN <<"i", DotAbove>> ELSE <<LowerChar(c)>>

\* the title case of one character
TitleChar(c) == IF c = GeorgianLower THEN c ELSE UpperChar(c)

\* \w of a Unicode pattern: alphanumerics and the underscore
IsWordChar(c) == IsCased(c) \/ c \in DigitChars \/ c = "_"

\* unicodedata.normalize("NFKC", c) for the characters of the model
NFKC_char(c) == IF c = "U+FB01" THEN <<"f","i">> ELSE <<c>>

\* NFKC of a string: compatibility decomposition, then composition ("I"
\* followed by U+0307 composes to U+0130; "i" followed by it does not compose)
RECURSIVE NFKC(_)
NFKC(s) ==
  IF s = <<>> THEN <<>>
  ELSE IF Len(s) >= 2 /\ s[1] = "I" /\ s[2] = DotAbove
  THEN <<DottedI>> \o NFKC(Tail(Tail(s)))
  ELSE NFKC_char(Head(s)) \o NFKC(Tail(s))

MapSeq(Op(_), s) == [i \in DOMAIN s |-> Op(s[i])]

RECURSIVE Flatten(_)
Flatten(ss) == IF ss = <<>> THEN <<>> ELSE Head(ss) \o Flatten(Tail(ss))

\* str.lower()
lower(s) ==
  IF \E i \in DOMAIN s : s[i] = DottedI
  THEN Flatten(MapSeq(LowerSeq, s))
  ELSE MapSeq(LowerChar, s)

\* str.strip()
RECURSIVE lstrip(_)
lstrip(s) == IF s # <<>> /\ Head(s) \in SpaceChars THEN lstrip(Tail(s)) ELSE s

RECURSIVE rstrip(_)
rstrip(s) ==
  IF s # <<>> /\ s[Len(s)] \in SpaceChars THEN rstrip(SubSeq(s, 1, Len(s) - 1)) ELSE s

strip(s) == rstrip(lstrip(s))

\* " ".join(text.split()): runs of whitespace become one space, ends trimmed
RECURSIVE CollapseRuns(_)
CollapseRuns(s) ==
  IF s = <<>> THEN <<>>
  ELSE IF Head(s) \in SpaceChars
       THEN <<" ">> \o CollapseRuns(lstrip(s))
       ELSE <<Head(s)>> \o CollapseRuns(Tail(s))

join_split(s) == CollapseRuns(strip(s))

\* str.title(): a cased character is upper-cased after an uncased one (or at
\* the start) and lower-cased after a cased one
RECURSIVE TitleFrom(_, _)
TitleFrom(s, prevCased) ==
  IF s = <<>> THEN <<>>
  ELSE LET c == Head(s) IN
       IF IsCased(c)
       THEN (IF prevCased THEN LowerSeq(c) ELSE <<TitleChar(c)>>) \o TitleFrom(Tail(s), TRUE)
       ELSE <<c>> \o TitleFrom(Tail(s), FALSE)

title(s) == TitleFrom(s, FALSE)

\* phrase in text
Contains(text, phrase) ==
  \E i \in 1..(Len(text) - Len(phrase) + 1) :
     SubSeq(text, i, i + Len(phrase) - 1) = phrase

\* ------------------------------------------------------------------------
\* src/src/normalize.py
\* ------------------------------------------------------------------------
NOISE_WORDS ==
  {
    <<"a","l","l">>,
    <<"b","r","a","n","d","s">>,
    <<"d","e","s","i","g","n","e","r","s">>,
    <<"s","h","o","p">>,
    <<"v","i","e","w">>,
    <<"s","e","e">>,
    <<"m","o","r","e">>,
    <<"n","e","w">>,
    <<"s","a","l","e">>,
    <<"w","o","m","e","n">>,
    <<"m","e","n">>,
    <<"k","i","d","s">>,
    <<"a","c","c","e","s","s","o","r","i","e","s">>,
    <<"s","h","o","e","s">>,
    <<"b","a","g","s">>,
    <<"b","e","a","u","t","y">>,
    <<"h","o","m","e">>,
    <<"c","o","l","l","e","c","t","i","o","n">>,
    <<"b","e","s","t","s","e","l","l","e","r">>,
    <<"t","r","e","n","d","i","n","g">>,
    <<"c","l","e","a","r">>,
    <<"f","i","l","t","e","r">>,
    <<"s","o","r","t">>,
    <<"p","r","o","d","u","c","t","s">>,
    <<"i","t","e","m","s">>,
    <<"c","l","o","t","h","i","n","g">>,
    <<"t","o","p","s">>,
    <<"b","o","t","t","o","m","s">>,
    <<"d","r","e","s","s","e","s">>,
    <<"o","u","t","e","r","w","e","a","r">>,
    <<"s","w","i","m","w","e","a","r">>,
    <<"l","o","u","n","g","e","w","e","a","r">>,
    <<"i","n","t","i","m","a","t","e","s">>,
    <<"h","e","e","l","s">>,
    <<"b","o","o","t","s">>,
    <<"s","a","n","d","a","l","s">>,
    <<"s","n","e","a","k","e","r","s">>,
    <<"l","o","a","f","e","r","s">>,
    <<"s","o","c","k","s">>,
    <<"j","e","w","e","l","r","y">>,
    <<"b","e","l","t","s">>,
    <<"s","c","a","r","v","e","s">>,
    <<"s","u","n","g","l","a","s","s","e","s">>,
    <<"r","o","m","p","e","r","s">>,
    <<"j","u","m","p","s","u","i","t","s">>,
    <<"a","r","r","i","v","a","l","s">>,
    <<"c","h","a","n","c","e">>,
    <<"a","p","p","l","y">>,
    <<"a","n","a">>,
    <<"s","a","y","f","a">>
  }

NOISE_PHRASES ==
  <<
    <<"a","n","a"," ","s","a","y","f","a">>,
    <<"n","e","w"," ","a","r","r","i","v","a","l","s">>,
    <<"s","a","l","e"," ","b","y"," ","b","r","a","n","d","s">>,
    <<"s","h","o","p"," ","b","y"," ","b","r","a","n","d">>,
    <<"l","a","s","t"," ","c","h","a","n","c","e">>,
    <<"s","a","l","e"," ","i","t","e","m","s">>,
    <<"s","a","l","e"," ","c","l","o","t","h","i","n","g">>,
    <<"s","a","l","e"," ","s","h","o","e","s">>,
    <<"s","a","l","e"," ","s","w","e","a","t","e","r","s">>,
    <<"s","a","l","e"," ","d","r","e","s","s">>,
    <<"s","h","o","p"," ","t","h","e"," ","l","o","o","k">>,
    <<"d","e","n","i","m"," ","j","e","a","n"," ","s","a","l","e">>,
    <<"l","e","a","t","h","e","r"," ","s","a","l","e">>,
    <<"s","w","i","m"," ","s","a","l","e">>,
    <<"c","o","a","t"," ","s","a","l","e">>,
    <<"d","r","e","s","s"," ","s","a","l","e">>,
    <<"s","h","o","e"," ","s","a","l","e">>,
    <<"w","i","n","t","e","r"," ","d","r","e","s","s"," ","c","o","l","l","e","c","t","i","o","n">>,
    <<"s","u","m","m","e","r"," ","d","r","e","s","s"," ","s","a","l","e">>,
    <<"s","u","m","m","e","r"," ","s","h","o","e"," ","s","a","l","e">>,
    <<"t","h","e"," ","b","l","a","z","e","r"," ","e","d","i","t">>,
    <<"t","h","e"," ","b","o","o","t"," ","s","h","o","p">>,
    <<"t","h","e"," ","s","c","a","r","f"," ","e","d","i","t">>,
    <<"t","h","e"," ","v","a","l","e","n","t","i","n","e">>,
    <<"c","o","n","d","i","t","i","o","n","s"," ","a","p","p","l","y">>,
    <<"h","o","t"," ","f","o","r"," ","s","u","m","m","e","r">>,
    <<"o","f","f"," ","t","h","e"," ","b","e","a","t","e","n"," ","t","r","a","c","k">>,
    <<"p","r","i","n","t","e","d"," ","a","r","t","w","o","r","k","s">>,
    <<"s","o","l","i","d"," ","s","t","r","i","p","e","d">>,
    <<"s","a","l","e"," ","f","w">>,
    <<" ","f","r","o","n","t">>,
    <<" ","e","d","i","t">>,
    <<"d","a","t","e"," ","s","h","o","e","s">>,
    <<"p","r","o","d","u","c","t","s">>,
    <<"s","a","l","e"," ","f","w"," ">>,
    <<"o","n"," ","s","a","l","e">>,
    <<" ","s","h","o","p">>
  >>

\* [A-Za-zÀ-ɏ]
GroupLetters == Range(LowerLetters) \cup Range(UpperLetters) \cup {DottedI}

IsGroupLetter(c) == c \in GroupLetters

\* LETTER_GROUP_PATTERN.match(t): one to three letters, a hyphen, one to three letters
LETTER_GROUP_PATTERN(t) ==
  \E i \in 2..4 :
     /\ i <= Len(t)
     /\ t[i] = "-"
     /\ Len(t) - i \in 1..3
     /\ \A j \in (1..Len(t)) \ {i} : IsGroupLetter(t[j])

\* re.compile(r"[^\w\s\-']").sub("", text)
IsAllowedChar(c) == IsWordChar(c) \/ c \in SpaceChars \/ c \in {"-", "'"}

RECURSIVE RemoveDisallowed(_)
RemoveDisallowed(s) ==
  IF s = <<>> THEN <<>>
  ELSE (IF IsAllowedChar(Head(s)) THEN <<Head(s)>> ELSE <<>>) \o RemoveDisallowed(Tail(s))

strip_emoji_and_symbols(text) ==
  IF text = <<>> THEN <<>>
  ELSE RemoveDisallowed(NFKC(text))

normalize_caps(text) ==
  IF text = <<>> THEN <<>> ELSE title(join_split(text))

DigitCount(s) == Cardinality({ i \in DOMAIN s : s[i] \in DigitChars })

\* sum(c.isdigit() for c in tl) >= len(t) // 2, where tl is t.lower()
DigitRule(t, tl) == DigitCount(tl) >= Len(t) \div 2

MostlyDigits(t) == DigitRule(t, lower(t))

is_noise_phrase(text) ==
  LET t  == strip(text)
      tl == lower(t)
  IN  \/ Len(t) < 2
      \/ tl \in NOISE_WORDS
      \/ \E k \in DOMAIN NOISE_PHRASES : Contains(tl, NOISE_PHRASES[k])
      \/ LETTER_GROUP_PATTERN(t)
      \/ DigitRule(t, tl)

\* s after "s = s.strip()": the string the noise filter is asked about
Cleaned(raw) == strip(normalize_caps(strip_emoji_and_symbols(raw)))

normalize_brand_name(raw) ==
  LET s == Cleaned(raw)
  IN  IF Len(s) < 2 THEN <<>>
      ELSE IF is_noise_phrase(s) THEN <<>>
      ELSE s

RECURSIVE DedupeFrom(_, _)
DedupeFrom(names, out) ==
  IF names = <<>> THEN out
  ELSE LET n == normalize_brand_name(Head(names)) IN
       IF n # <<>> /\ n \notin Range(out)
       THEN DedupeFrom(Tail(names), Append(out, n))
       ELSE DedupeFrom(Tail(names), out)

dedupe_brand_names(names) == DedupeFrom(names, <<>>)

\* ------------------------------------------------------------------------
\* State
\* ------------------------------------------------------------------------
VARIABLES
  fetchIn,            \* the inputs of a fetch run on its own
  fetchOut,           \* its FetchOutcome
  cfg,                \* run_pilot's arguments and environment
  pc,                 \* where run_pilot is
  idx,                \* the task of the sequential loop / the result being merged
  tasks,              \* per task: retry loop state and result
  all_records,        \* run_pilot's accumulated list
  site_log,           \* the site_result lines written by log_site_result
  progress,           \* the on_progress invocations made, in order
  call,               \* the on_progress invocation in flight
  LAST_SCRAPE_STATS,  \* per source: the counts of the last successful fetch
  shared_records,     \* _run_scraper: the mirror the callback refills
  shared_errors,      \* _run_scraper: error per source
  timed_out,          \* _run_scraper: future.result timed out
  snapshot,           \* _run_scraper: list(shared_records) taken at the timeout
  completed_at_expiry,\* history: the tasks whose fetch had succeeded by the timeout
  environ,            \* os.environ: the integer settings read by scraper.py
  norm,               \* a run of the normaliser on its own: input and results
  backoff,            \* a retry loop's delays on their own
  payload             \* serve.py: the JSON payload returned for the request

vars == <<fetchIn, fetchOut, cfg, pc, idx, tasks, all_records, site_log, progress,
          call, LAST_SCRAPE_STATS, shared_records, shared_errors,
          timed_out, snapshot, completed_at_expiry, environ, norm, backoff,
          payload>>

\* what run_pilot, the fetcher and _run_scraper leave alone
restVars == <<environ, norm, backoff, payload>>

\* ------------------------------------------------------------------------
\* Raw strings and pages the modelled sites serve
\* ------------------------------------------------------------------------
RawNike    == <<"N","i","k","e">>
RawNIKE    == <<"N","I","K","E">>
RawNikeReg == <<" ","n","i","k","e","U+00AE"," ">>
RawZara    == <<"z","a","r","a">>
RawPuma    == <<"P","u","m","a">>
RawFila12  == <<"F","i","l","a","1","2">>
RawAZ      == <<"A","-","Z">>
RawCCed    == <<"C","-","U+00C7">>
RawShop    == <<"S","h","o","p">>
RawVans    == <<"V","a","n","s">>
RawNo5     == <<"N","o","5">>

\* What one rendered page yields: the candidates of the selector-scoped pass,
\* those of the whole-page scan, its "next" link (0: none, else a URL) and the
\* outcome of navigating to it.
PageKinds ==
  << [scoped |-> <<RawNike, RawZara, RawPuma>>,       fallback |-> <<RawShop>>],
     [scoped |-> <<RawNIKE, RawAZ>>,                  fallback |-> <<RawVans, RawNo5>>],
     [scoped |-> <<RawNikeReg, RawFila12, RawCCed>>,  fallback |-> <<>>] >>

StatusResp(s) == [kind |-> "response", status |-> s, msg |-> ""]
NoResp        == [kind |-> "none",     status |-> 0, msg |-> ""]
TimeoutExc    == [kind |-> "timeout",  status |-> 0, msg |-> "Timeout 25000ms exceeded"]
ErrorExc(m)   == [kind |-> "error",    status |-> 0, msg |-> m]

\* str(e) of the exceptions the browser raises in the model
ExceptionMessages ==
  {"Target page closed", "captcha challenge", "net::ERR_BLOCKED_BY_CLIENT", "status 403"}

HasCaptcha(msg) == msg = "captcha challenge"
HasBlocked(msg) == msg = "net::ERR_BLOCKED_BY_CLIENT"
Has403(msg)     == msg \in {"status 403", "HTTP 403"}

HTTPStatuses == {200, 403, 404, 429, 500, 503}

HTTPErrorText(status) ==
  CASE status = 403 -> "HTTP 403"
    [] status = 404 -> "HTTP 404"
    [] status = 429 -> "HTTP 429"
    [] status = 500 -> "HTTP 500"
    [] status = 503 -> "HTTP 503"
    [] OTHER        -> "HTTP error"

\* ------------------------------------------------------------------------
\* src/src/scraper.py: the fetcher
\* ------------------------------------------------------------------------
Take(s, n) == IF n <= 0 THEN <<>> ELSE SubSeq(s, 1, IF n < Len(s) THEN n ELSE Len(s))

Max(a, b) == IF a >= b THEN a ELSE b
Min(a, b) == IF a <= b THEN a ELSE b

\* _TRAILING_DIGITS_RE: ^(.+[A-Za-zÀ-ɏ])(\d+)$
RECURSIVE TrailingDigits(_)
TrailingDigits(s) ==
  IF s # <<>> /\ s[Len(s)] \in DigitChars
  THEN 1 + TrailingDigits(SubSeq(s, 1, Len(s) - 1)) ELSE 0

_strip_trailing_ui_counter(text) ==
  LET t == strip(text)
      d == TrailingDigits(t)
      p == Len(t) - d
  IN  IF t = <<>> THEN t
      ELSE IF d >= 1 /\ p >= 2 /\ IsGroupLetter(t[p]) THEN strip(SubSeq(t, 1, p))
      ELSE t

RawMargin == 50

\* the defaults of the integer settings read from the environment
\* int(os.environ.get("SCRAPER_GATHER_CHUNK", "200"))
DefaultGatherChunk == 200
\* int(os.environ.get("SCRAPER_MAX_PAGES", "10"))
DefaultMaxPages == 10
\* int(os.environ.get("SCRAPER_CONCURRENCY", "3"))
DefaultConcurrency == 3

DefaultEnviron ==
  [SCRAPER_GATHER_CHUNK |-> DefaultGatherChunk,
   SCRAPER_MAX_PAGES    |-> DefaultMaxPages,
   SCRAPER_CONCURRENCY  |-> DefaultConcurrency]

GATHER_CHUNK_SIZE == environ.SCRAPER_GATHER_CHUNK

RestIdle ==
  /\ environ = DefaultEnviron
  /\ norm = NoneV
  /\ backoff = NoneV
  /\ payload = NoneV

\* variant: 429 is left out of the tuple
BlockedStatusesMissing429 == {403, 503}
\* response.status in (403, 429, 503)
BlockedStatuses == {403, 429, 503}

\* str(ValueError) of range(0, n, 0)
RangeStepError == "range() arg 3 must not be zero"

\* _extract_from_locator: the links are read in chunks of GATHER_CHUNK_SIZE,
\* "for start in range(0, len(els), GATHER_CHUNK_SIZE)", inside a try whose
\* except clause moves on to the next selector: a step of 0 raises and is
\* swallowed, a negative step gives an empty range
_extract_from_locator(page, max_raw_items) ==
  IF GATHER_CHUNK_SIZE <= 0 THEN <<>>
  ELSE IF max_raw_items = NoneV THEN page.scoped
  ELSE Take(page.scoped, max_raw_items[1])

\* _extract_one_page_raw: the scoped pass up to the budget, then the whole-page
\* scan when fewer than 3 candidates were found or the budget is not reached;
\* the whole-page loop has no try around its range(0, len(all_els), GATHER_CHUNK_SIZE)
_extract_one_page_raw(page, max_raw) ==
  LET raw == _extract_from_locator(page, max_raw)
      has_links == page.scoped \o page.fallback # <<>>
  IN  IF Len(raw) < 3 \/ (max_raw # NoneV /\ Len(raw) < max_raw[1])
      THEN IF has_links /\ GATHER_CHUNK_SIZE = 0
           THEN [raw |-> raw, exc |-> RangeStepError]
           ELSE IF GATHER_CHUNK_SIZE < 0
           THEN [raw |-> raw, exc |-> NoError]
           ELSE [raw |-> raw \o (IF max_raw = NoneV THEN page.fallback
                                 ELSE Take(page.fallback, Max(0, max_raw[1] - Len(raw)))),
                 exc |-> NoError]
      ELSE [raw |-> raw, exc |-> NoError]

\* variant: the final slice is missing
TruncateNamesNoCap(names, cap) == names
\* names = names[:max_brands_per_url] when there are more
TruncateNames(names, cap) ==
  IF cap # NoneV /\ Len(names) > cap[1] THEN Take(names, cap[1]) ELSE names

\* variant: the walk has no page ceiling
PageCeilingAbsent(visited, max_pages) == FALSE
\* variant: the walk stops one page before the ceiling
PageCeilingReachedEarly(visited, max_pages) == Len(visited) + 1 >= max_pages
\* if len(visited) >= max_pages: break
PageCeilingReached(visited, max_pages) == Len(visited) >= max_pages

\* variant: a next link is followed wherever it leads
NoNextOrVisitedIgnoringVisited(next_url, visited) == next_url = 0
\* if not next_url or next_url in visited: break
NoNextOrVisited(next_url, visited) == next_url = 0 \/ next_url \in Range(visited)

\* variant: a next page is extracted whatever its status
NextNavFailedWithoutResponse(resp) == resp.kind # "response"
\* page.goto(next_url) raised, or "if not resp or resp.status >= 400: break"
NextNavFailed(resp) == resp.kind # "response" \/ resp.status >= 400

\* the while True loop of scrape_brands_from_url; returns all_raw, the
\* visited URLs in order, and the exception that left the loop, if any
RECURSIVE PaginationLoop(_, _, _, _, _, _)
PaginationLoop(site, all_raw, visited, current_url, cap, max_pages) ==
  LET names_so_far == dedupe_brand_names(all_raw)
      next_url     == site.pages[current_url].next
      stop         == [all_raw |-> all_raw, visited |-> visited, exc |-> NoError]
  IN  IF cap # NoneV /\ Len(names_so_far) >= cap[1] THEN stop
      ELSE IF PageCeilingReached(visited, max_pages) THEN stop
      ELSE IF NoNextOrVisited(next_url, visited) THEN stop
      ELSE LET resp == site.pages[next_url].nav
               seen == Append(visited, next_url)
           IN  IF NextNavFailed(resp)
               THEN [all_raw |-> all_raw, visited |-> seen, exc |-> NoError]
               ELSE LET page_raw == _extract_one_page_raw(
                                      site.pages[next_url],
                                      IF cap = NoneV THEN NoneV
                                      ELSE Some(cap[1] + RawMargin))
                    IN  IF page_raw.exc # NoError
                        THEN [all_raw |-> all_raw, visited |-> seen,
                              exc |-> page_raw.exc]
                        ELSE PaginationLoop(site, all_raw \o page_raw.raw, seen,
                                            next_url, cap, max_pages)

NoFetch == [records |-> <<>>, blocked |-> FALSE, error |-> "pending",
            stats |-> NoneV, visited |-> <<>>]

FetchFailure(blocked, error, visited) ==
  [records |-> <<>>, blocked |-> blocked, error |-> error,
   stats |-> NoneV, visited |-> visited]

\* scrape_brands_from_url(page, url, source_name, max_brands_per_url) against
\* the site the URL serves; url is the site's first page
scrape_brands_from_url(site, source_name, max_brands_per_url, max_pages) ==
  LET response == site.pages[1].nav IN
  CASE response.kind = "timeout" -> FetchFailure(FALSE, "Timeout", <<>>)
    [] response.kind = "error" ->
         FetchFailure(HasCaptcha(response.msg) \/ HasBlocked(response.msg)
                        \/ Has403(response.msg),
                      response.msg, <<>>)
    [] response.kind = "none" -> FetchFailure(FALSE, "No response", <<1>>)
    [] response.kind = "response" /\ response.status >= 400 ->
         FetchFailure(response.status \in BlockedStatuses,
                      HTTPErrorText(response.status), <<1>>)
    [] OTHER ->
         LET max_raw == IF max_brands_per_url = NoneV THEN NoneV
                        ELSE Some(max_brands_per_url[1] + RawMargin)
             first   == _extract_one_page_raw(site.pages[1], max_raw)
             walk    == IF first.exc # NoError
                        THEN [all_raw |-> <<>>, visited |-> <<1>>, exc |-> first.exc]
                        ELSE PaginationLoop(site, first.raw, <<1>>, 1,
                                            max_brands_per_url, max_pages)
             all_raw == IF site.aboutyou
                        THEN [i \in DOMAIN walk.all_raw |->
                                _strip_trailing_ui_counter(walk.all_raw[i])]
                        ELSE walk.all_raw
             names   == TruncateNames(dedupe_brand_names(all_raw), max_brands_per_url)
         IN  IF walk.exc # NoError
             THEN \* except Exception as e
                  FetchFailure(HasCaptcha(walk.exc) \/ HasBlocked(walk.exc)
                                 \/ Has403(walk.exc),
                               walk.exc, walk.visited)
             ELSE [records |-> [i \in DOMAIN names |->
                                  [brand |-> names[i], source |-> source_name]],
                   blocked |-> FALSE,
                   error   |-> NoError,
                   stats   |-> Some([raw_count |-> Len(all_raw),
                                     filtered_count |-> Len(names)]),
                   visited |-> walk.visited]

\* ------------------------------------------------------------------------
\* src/src/scraper.py: the orchestrator run_pilot
\* ------------------------------------------------------------------------
MaxTasks == 2
MaxRetries == 1
MaxGlobalCap == 3
MaxPerCap == 1

SourceNames == <<"r1", "r2", "r3", "r4">>

AllSources == Range(SourceNames) \cup {"unknown"}

ListingUrl == "https://shop.example/brands"

\* retailers: task t is named after its position; a task may come without a
\* brand_list_url
RetailerLists ==
  UNION { { [t \in 1..n |-> [name |-> SourceNames[t], brand_list_url |-> urls[t]]] :
              urls \in [1..n -> {"", ListingUrl}] } :
          n \in 1..MaxTasks }

\* SCRAPER_CONCURRENCY: 1 forces the sequential path, 2 bounds the pool
ConcurrencyChoices == {1, 2}

GlobalCapChoices == {NoneV} \cup { Some(k) : k \in 1..MaxGlobalCap }
PerCapChoices    == {NoneV} \cup { Some(k) : k \in 1..MaxPerCap }

SinglePage(k) ==
  [pages |-> <<[scoped |-> PageKinds[k].scoped, fallback |-> PageKinds[k].fallback,
                next |-> 0, nav |-> StatusResp(200)]>>,
   aboutyou |-> FALSE]

FailSite(r) ==
  [pages |-> <<[scoped |-> PageKinds[1].scoped, fallback |-> PageKinds[1].fallback,
                next |-> 0, nav |-> r]>>,
   aboutyou |-> FALSE]

\* what a listing URL may serve at one attempt of the orchestrator
OrchSites ==
  { SinglePage(2), FailSite(StatusResp(403)), FailSite(StatusResp(500)) }

\* a listing that loads and holds no brand link: navigation links only
QuietUrl == "https://shop.example/none"

QuietSite ==
  [pages |-> <<[scoped |-> <<RawShop, RawAZ>>, fallback |-> <<RawShop>>,
                next |-> 0, nav |-> StatusResp(200)]>>,
   aboutyou |-> FALSE]

SitesAt(url) ==
  IF url = QuietUrl THEN { QuietSite, FailSite(StatusResp(500)) } ELSE OrchSites

\* the calls of an iteration that can raise before the fetch: new_page()
\* raises with no page opened, set_extra_http_headers() with the page open
PageStages == {"new_page", "headers"}

\* an exception raised by the page of an attempt outside the fetcher
\* (context.new_page() or page.set_extra_http_headers() fails)
PageErrors ==
  { [kind |-> "exc", msg |-> "Target page closed", stage |-> s, out |-> NoFetch] :
      s \in cfg.page_faults }

\* the ways one iteration of a retry loop can go, for a fetch of url asked
\* for cap
AttemptOutcomes(url, source, cap) ==
  PageErrors \cup
  { [kind |-> "fetch", msg |-> "", stage |-> "none",
     out |-> scrape_brands_from_url(s, source, cap, DefaultMaxPages)] :
      s \in SitesAt(url) }

IdleTask ==
  [st |-> "idle", attempts |-> 0, last_error |-> NoError, last_blocked |-> FALSE,
   all_err |-> TRUE, all_blocked |-> TRUE,
   asked |-> NoneV, outcome |-> "none", fetched |-> <<>>, error |-> NoError,
   added |-> 0, open_pages |-> 0]

NoCall == [source |-> "", n |-> 0, error |-> NoError, in_try |-> FALSE]

NumTasks == Len(cfg.retailers)

use_parallel == NumTasks > 1 /\ cfg.concurrency > 1

SourceOf(t) == cfg.retailers[t].name

\* variant: range(max_retries + 2)
LastIterationOneMore(k) == k >= cfg.max_retries + 1
\* range(max_retries + 1): iteration k is the last one
LastIteration(k) == k >= cfg.max_retries

\* err and not records
IsFailure(out) == out.error # NoError /\ out.records = <<>>

LogLine(source, success, count, error, blocked) ==
  [source |-> source, success |-> success, brands_count |-> count,
   error |-> error, blocked_or_captcha |-> blocked]

\* log_site_result(...) followed by on_progress(...): the line is written,
\* the invocation recorded, and control passes to the callback
Report(source, success, n, error, blocked, in_try, records) ==
  /\ site_log' = Append(site_log, LogLine(source, success, n, error, blocked))
  /\ progress' = Append(progress, [idx |-> idx, source |-> source, n |-> n,
                                   error |-> error, total |-> Len(records)])
  /\ call' = [source |-> source, n |-> n, error |-> error, in_try |-> in_try]
  /\ pc' = "on_progress"

RunInitWith(lists, retries, modes, faults, stages) ==
  /\ cfg \in [retailers : lists, max_retries : retries,
              max_brands : GlobalCapChoices,
              max_brands_per_retailer : PerCapChoices,
              concurrency : ConcurrencyChoices, mode : modes, io_fails : faults,
              page_faults : stages]
  /\ pc = "start"
  /\ idx = 1
  /\ tasks = [t \in 1..Len(cfg.retailers) |-> IdleTask]
  /\ all_records = <<>>
  /\ site_log = <<>>
  /\ progress = <<>>
  /\ call = NoCall
  /\ LAST_SCRAPE_STATS = [s \in AllSources |-> NoneV]
  /\ shared_records = <<>>
  /\ shared_errors = [s \in AllSources |-> NoError]
  /\ timed_out = FALSE
  /\ snapshot = <<>>
  /\ completed_at_expiry = {}
  /\ fetchIn = NoneV
  /\ fetchOut = NoFetch
  /\ RestIdle

RunInit(lists, retries, modes, faults) ==
  RunInitWith(lists, retries, modes, faults, {{"new_page"}})

serverVars == <<shared_records, shared_errors, timed_out, snapshot, completed_at_expiry>>

\* browser and context are up; choose the path
Launch ==
  /\ pc = "start"
  /\ idx' = 1
  /\ IF use_parallel
     THEN /\ pc' = "gather"
          /\ tasks' = [t \in DOMAIN tasks |-> [tasks[t] EXCEPT !.st = "waiting"]]
     ELSE /\ pc' = "seq_loop"
          /\ UNCHANGED tasks
  /\ UNCHANGED <<cfg, all_records, site_log, progress, call,
                 LAST_SCRAPE_STATS, fetchIn, fetchOut>>
  /\ UNCHANGED serverVars
  /\ UNCHANGED restVars

\* ---- the retry loop, shared by both paths ------------------------------

\* the task after an iteration that ended without records
FailedIteration(task, error, blocked, was_error_return, was_blocking_status) ==
  [task EXCEPT !.attempts = @ + 1,
               !.last_error = error,
               !.last_blocked = blocked,
               !.all_err = @ /\ was_error_return,
               !.all_blocked = @ /\ was_blocking_status]

\* the pages an iteration leaves open. A fetch returns and page.close()
\* follows; the except clause of _scrape_one_retailer closes a page that was
\* opened ("if page: await page.close()"), the except clause of the
\* sequential loop holds no close
PagesLeftOpen(o, seq_path) ==
  IF o.kind = "exc" /\ o.stage = "headers" /\ seq_path THEN 1 ELSE 0

\* the task after one iteration whose fetch was to be asked for cap
AfterOutcome(before, o, seq_path, cap) ==
  LET task == [before EXCEPT !.asked = cap,
                              !.open_pages = @ + PagesLeftOpen(o, seq_path)] IN
  IF o.kind = "exc"
  THEN FailedIteration(task, o.msg,
                       seq_path /\ (HasCaptcha(o.msg) \/ Has403(o.msg)), FALSE, FALSE)
  ELSE IF IsFailure(o.out)
  THEN FailedIteration(task, o.out.error, seq_path /\ o.out.blocked, TRUE, o.out.blocked)
  ELSE \* last_error and last_blocked are not read again once an attempt succeeds
       [task EXCEPT !.attempts = @ + 1, !.st = "done", !.outcome = "ok",
                    !.fetched = o.out.records, !.all_err = FALSE,
                    !.all_blocked = FALSE,
                    !.last_error = NoError, !.last_blocked = FALSE]

Exhausted(task) ==
  [task EXCEPT !.st = "done", !.outcome = "failed", !.error = task.last_error]

StatsAfter(source, o) ==
  IF o.kind = "fetch" /\ o.out.stats # NoneV
  THEN [LAST_SCRAPE_STATS EXCEPT ![source] = o.out.stats]
  ELSE LAST_SCRAPE_STATS

\* ---- sequential path ----------------------------------------------------

\* need_now: the cap a sequential fetch is asked for
need_now ==
  IF cfg.max_brands_per_retailer # NoneV THEN cfg.max_brands_per_retailer
  ELSE IF cfg.max_brands # NoneV THEN Some(cfg.max_brands[1] - Len(all_records))
  ELSE NoneV

\* variant: the loop also leaves once a task has failed
SeqLoopBreaksAfterFailure ==
  \/ cfg.max_brands # NoneV /\ Len(all_records) >= cfg.max_brands[1]
  \/ \E t \in DOMAIN tasks : tasks[t].outcome = "failed"
\* the loop leaves before a task when the global cap is met
SeqLoopBreaks ==
  cfg.max_brands # NoneV /\ Len(all_records) >= cfg.max_brands[1]

\* the head of "for idx, r in enumerate(retailers)"
SeqTask ==
  /\ pc = "seq_loop"
  /\ IF idx > NumTasks \/ SeqLoopBreaks
     THEN /\ pc' = "closing"
          /\ UNCHANGED <<tasks, site_log, progress, call>>
     ELSE IF cfg.retailers[idx].brand_list_url = ""
     THEN /\ tasks' = [tasks EXCEPT ![idx] =
                         [@ EXCEPT !.st = "done", !.outcome = "failed",
                                   !.error = "No brand list URL"]]
          /\ Report(SourceOf(idx), FALSE, 0, "No brand list URL", FALSE, FALSE, all_records)
     ELSE /\ tasks' = [tasks EXCEPT ![idx] = [@ EXCEPT !.st = "running"]]
          /\ pc' = "seq_attempt"
          /\ UNCHANGED <<site_log, progress, call>>
  /\ UNCHANGED <<cfg, idx, all_records, LAST_SCRAPE_STATS, fetchIn, fetchOut>>
  /\ UNCHANGED serverVars
  /\ UNCHANGED restVars

\* the for-else clause: the budget is spent
SeqExhausted(task) ==
  /\ tasks' = [tasks EXCEPT ![idx] = Exhausted(task)]
  /\ Report(SourceOf(idx), FALSE, 0, task.last_error, task.last_blocked, FALSE, all_records)

\* variant: the callback is told how many records the fetch returned
recordsAddedAsFetched(to_add, records) == Len(records)
\* the count passed to log_site_result and on_progress after
\* all_records.extend(to_add): len(to_add), which is len(records) where no
\* global cap cuts the extension
recordsAdded(to_add, records) == Len(to_add)

\* what the sequential path appends for a successful fetch
SeqToAdd(records) ==
  IF cfg.max_brands_per_retailer = NoneV /\ cfg.max_brands # NoneV
  THEN Take(records, cfg.max_brands[1] - Len(all_records))
  ELSE records

\* one iteration of "for attempt in range(max_retries + 1)"
SeqAttempt ==
  /\ pc = "seq_attempt"
  /\ \E o \in AttemptOutcomes(cfg.retailers[idx].brand_list_url, SourceOf(idx), need_now) :
       LET task == AfterOutcome(tasks[idx], o, TRUE, need_now) IN
       /\ LAST_SCRAPE_STATS' = StatsAfter(SourceOf(idx), o)
       /\ IF task.outcome = "ok"
          THEN IF cfg.max_brands_per_retailer = NoneV /\ cfg.max_brands # NoneV
                  /\ cfg.max_brands[1] - Len(all_records) <= 0
               THEN \* need <= 0: break
                    /\ tasks' = [tasks EXCEPT ![idx] = task]
                    /\ pc' = "seq_loop"
                    /\ idx' = idx + 1
                    /\ UNCHANGED <<all_records, site_log, progress, call>>
               ELSE LET to_add == SeqToAdd(o.out.records) IN
                    /\ tasks' = [tasks EXCEPT ![idx] =
                                   [task EXCEPT !.added = @ + Len(to_add)]]
                    /\ all_records' = all_records \o to_add
                    /\ Report(SourceOf(idx), TRUE, recordsAdded(to_add, o.out.records),
                              NoError, o.out.blocked, TRUE, all_records \o to_add)
                    /\ UNCHANGED idx
          ELSE /\ UNCHANGED <<all_records, idx>>
               /\ IF LastIteration(tasks[idx].attempts)
                  THEN SeqExhausted(task)
                  ELSE /\ tasks' = [tasks EXCEPT ![idx] = task]
                       /\ UNCHANGED <<pc, site_log, progress, call>>
  /\ UNCHANGED <<cfg, fetchIn, fetchOut>>
  /\ UNCHANGED serverVars
  /\ UNCHANGED restVars

\* ---- parallel path ------------------------------------------------------

Running == { t \in DOMAIN tasks : tasks[t].st = "running" }
Waiting == { t \in DOMAIN tasks : tasks[t].st = "waiting" }

\* variant: the semaphore is created with one slot too many
SemaphoreOneTooMany == Cardinality(Running) < cfg.concurrency + 1
\* asyncio.Semaphore(concurrency): a slot is free
SemaphoreFree == Cardinality(Running) < cfg.concurrency

\* async with sem: the semaphore admits waiters first come, first served
ParAcquire(t) ==
  /\ pc = "gather"
  /\ t \in Waiting
  /\ \A u \in Waiting : t <= u
  /\ SemaphoreFree
  /\ tasks' = [tasks EXCEPT ![t] =
                 IF cfg.retailers[t].brand_list_url = ""
                 THEN [@ EXCEPT !.st = "done", !.outcome = "failed",
                                !.error = "No brand list URL"]
                 ELSE [@ EXCEPT !.st = "running"]]
  /\ UNCHANGED <<cfg, pc, idx, all_records, site_log, progress, call,
                 LAST_SCRAPE_STATS, fetchIn, fetchOut>>
  /\ UNCHANGED serverVars
  /\ UNCHANGED restVars

\* one iteration of the retry loop of _scrape_one_retailer
ParAttempt(t) ==
  /\ pc = "gather"
  /\ t \in Running
  /\ \E o \in AttemptOutcomes(cfg.retailers[t].brand_list_url, SourceOf(t),
                               cfg.max_brands_per_retailer) :
       LET task == AfterOutcome(tasks[t], o, FALSE, cfg.max_brands_per_retailer) IN
       /\ LAST_SCRAPE_STATS' = StatsAfter(SourceOf(t), o)
       /\ tasks' = [tasks EXCEPT ![t] =
                      IF task.outcome # "ok" /\ LastIteration(tasks[t].attempts)
                      THEN Exhausted(task) ELSE task]
  /\ UNCHANGED <<cfg, pc, idx, all_records, site_log, progress, call, fetchIn, fetchOut>>
  /\ UNCHANGED serverVars
  /\ UNCHANGED restVars

\* asyncio.gather(..., return_exceptions=True) returns once every task has
GatherDone ==
  /\ pc = "gather"
  /\ \A t \in DOMAIN tasks : tasks[t].st = "done"
  /\ pc' = "par_merge"
  /\ idx' = 1
  /\ UNCHANGED <<cfg, tasks, all_records, site_log, progress, call,
                 LAST_SCRAPE_STATS, fetchIn, fetchOut>>
  /\ UNCHANGED serverVars
  /\ UNCHANGED restVars

\* variant: the merge loop extends with all the records
ParToAddIgnoringGlobalCap(records) == records
\* what the merge loop appends for a result with records
ParToAdd(records) ==
  IF cfg.max_brands # NoneV
  THEN Take(records, cfg.max_brands[1] - Len(all_records))
  ELSE records

\* one iteration of "for k, res in enumerate(results)"
ParMerge ==
  /\ pc = "par_merge"
  /\ IF idx > NumTasks
     THEN /\ pc' = "closing"
          /\ UNCHANGED <<idx, tasks, all_records, site_log, progress, call>>
     ELSE LET res == tasks[idx] IN
          CASE res.outcome = "exception" ->
                 /\ Report("unknown", FALSE, 0, res.error, FALSE, FALSE, all_records)
                 /\ UNCHANGED <<idx, tasks, all_records>>
            [] res.outcome = "failed" ->
                 /\ Report(SourceOf(idx), FALSE, 0, res.error, FALSE, FALSE, all_records)
                 /\ UNCHANGED <<idx, tasks, all_records>>
            [] OTHER ->
                 IF cfg.max_brands # NoneV /\ cfg.max_brands[1] - Len(all_records) <= 0
                 THEN /\ idx' = idx + 1
                      /\ UNCHANGED <<pc, tasks, all_records, site_log, progress, call>>
                 ELSE LET to_add == ParToAdd(res.fetched) IN
                      /\ all_records' = all_records \o to_add
                      /\ tasks' = [tasks EXCEPT ![idx] = [@ EXCEPT !.added = Len(to_add)]]
                      /\ Report(SourceOf(idx), TRUE, recordsAdded(to_add, res.fetched),
                                NoError, FALSE, FALSE, all_records \o to_add)
                      /\ UNCHANGED idx
  /\ UNCHANGED <<cfg, LAST_SCRAPE_STATS, fetchIn, fetchOut>>
  /\ UNCHANGED serverVars
  /\ UNCHANGED restVars

\* ---- the callback ---------------------------------------------------------

\* control is back in run_pilot after on_progress returned
AfterProgress ==
  /\ call' = NoCall
  /\ idx' = idx + 1
  /\ pc' = IF use_parallel THEN "par_merge" ELSE "seq_loop"

\* a callback given by a direct caller returns
ProgressReturns ==
  /\ pc = "on_progress"
  /\ cfg.mode = "direct"
  /\ AfterProgress
  /\ UNCHANGED <<cfg, tasks, all_records, site_log, progress,
                 LAST_SCRAPE_STATS, fetchIn, fetchOut>>
  /\ UNCHANGED serverVars
  /\ UNCHANGED restVars

\* await context.close(); await browser.close(); return all_records
Close ==
  /\ pc = "closing"
  /\ pc' = "returned"
  /\ UNCHANGED <<cfg, idx, tasks, all_records, site_log, progress, call,
                 LAST_SCRAPE_STATS, fetchIn, fetchOut>>
  /\ UNCHANGED serverVars
  /\ UNCHANGED restVars

Init == RunInit(RetailerLists, 0..MaxRetries, {"direct"}, {FALSE})

Next ==
  \/ Launch
  \/ SeqTask
  \/ SeqAttempt
  \/ \E t \in DOMAIN tasks : ParAcquire(t)
  \/ \E t \in DOMAIN tasks : ParAttempt(t)
  \/ GatherDone
  \/ ParMerge
  \/ ProgressReturns
  \/ Close

Spec == Init /\ [][Next]_vars

\* ------------------------------------------------------------------------
\* One fetch on its own: the inputs are drawn in FetchInit
\* ------------------------------------------------------------------------
MaxChain == 3
MaxFetchCap == 3
MaxPagesEnv == 3

CapChoices == {NoneV} \cup { Some(k) : k \in 0..MaxFetchCap }

\* navigating to a later page of a chain fails in one of these ways
LaterNavFailures == {StatusResp(404), NoResp, TimeoutExc}

FirstNavFailures ==
  { StatusResp(s) : s \in HTTPStatuses \ {200} }
    \cup {NoResp, TimeoutExc} \cup { ErrorExc(m) : m \in ExceptionMessages }

\* a chain of n pages linked by next links; the last page links nowhere or
\* back to the first; navigation fails at no page or at one later page
ChainSites(n) ==
  { [pages |-> [i \in 1..n |->
                  [scoped   |-> PageKinds[kinds[i]].scoped,
                   fallback |-> PageKinds[kinds[i]].fallback,
                   next     |-> IF i < n THEN i + 1 ELSE last,
                   nav      |-> IF i = failAt THEN fail ELSE StatusResp(200)]],
     aboutyou |-> ay] :
      kinds \in [1..n -> DOMAIN PageKinds],
      failAt \in {0} \cup 2..n, fail \in LaterNavFailures,
      last \in {0, 1}, ay \in BOOLEAN }

FailingSites ==
  { [pages |-> <<[scoped |-> PageKinds[1].scoped, fallback |-> PageKinds[1].fallback,
                  next |-> 0, nav |-> r]>>,
     aboutyou |-> FALSE] : r \in FirstNavFailures }

Sites == FailingSites \cup UNION { ChainSites(n) : n \in 1..MaxChain }

FetchInit ==
  /\ fetchIn \in [site : Sites, cap : CapChoices, max_pages : 1..MaxPagesEnv]
  /\ fetchOut = NoFetch
  /\ cfg = NoneV
  /\ pc = "fetch"
  /\ idx = 0
  /\ tasks = <<>>
  /\ all_records = <<>>
  /\ site_log = <<>>
  /\ progress = <<>>
  /\ call = NoCall
  /\ LAST_SCRAPE_STATS = [s \in AllSources |-> NoneV]
  /\ shared_records = <<>>
  /\ shared_errors = [s \in AllSources |-> NoError]
  /\ timed_out = FALSE
  /\ snapshot = <<>>
  /\ completed_at_expiry = {}
  /\ RestIdle

Fetch ==
  /\ fetchOut = NoFetch
  /\ fetchOut' = scrape_brands_from_url(fetchIn.site, SourceNames[1], fetchIn.cap,
                                        fetchIn.max_pages)
  /\ LAST_SCRAPE_STATS' =
       IF fetchOut'.stats # NoneV
       THEN [LAST_SCRAPE_STATS EXCEPT ![SourceNames[1]] = fetchOut'.stats]
       ELSE LAST_SCRAPE_STATS
  /\ UNCHANGED <<fetchIn, cfg, pc, idx, tasks, all_records, site_log, progress, call,
                 shared_records, shared_errors, timed_out, snapshot,
                 completed_at_expiry>>
  /\ UNCHANGED restVars

FetchNext == Fetch

FetchSpec == FetchInit /\ [][FetchNext]_vars

\* ------------------------------------------------------------------------
\* A caller whose callback (or the log_site_result next to it) can raise
\* ------------------------------------------------------------------------
CallbackError == "OSError: No space left on device"

\* the exception leaves log_site_result/on_progress. On the success branch of
\* the sequential path the call sits inside the try of the retry loop: the
\* except clause records the error and the loop goes on to the next iteration,
\* or to the for-else clause after the last one. Everywhere else nothing
\* catches it and run_pilot raises.
ProgressRaises ==
  /\ pc = "on_progress"
  /\ cfg.io_fails
  /\ IF call.in_try
     THEN LET task == [tasks[idx] EXCEPT
                         !.st = "running", !.outcome = "none",
                         !.last_error = CallbackError,
                         !.last_blocked = HasCaptcha(CallbackError) \/ Has403(CallbackError)]
          IN  IF LastIteration(tasks[idx].attempts - 1)
              THEN SeqExhausted(task)
              ELSE /\ tasks' = [tasks EXCEPT ![idx] = task]
                   /\ pc' = "seq_attempt"
                   /\ call' = NoCall
                   /\ UNCHANGED <<site_log, progress>>
     ELSE /\ pc' = "raised"
          /\ call' = NoCall
          /\ UNCHANGED <<tasks, site_log, progress>>
  /\ UNCHANGED <<cfg, idx, all_records, LAST_SCRAPE_STATS, fetchIn, fetchOut>>
  /\ UNCHANGED serverVars
  /\ UNCHANGED restVars

FaultInit == RunInit(RetailerLists, 0..MaxRetries, {"direct"}, {TRUE})

FaultNext == Next \/ ProgressRaises

FaultSpec == FaultInit /\ [][FaultNext]_vars

\* ------------------------------------------------------------------------
\* src/serve.py: _run_scraper runs run_pilot_sync in a worker thread and
\* waits for it up to the server timeout
\* ------------------------------------------------------------------------

\* max_retries=2 in the submit call
ServeRetries == 2

\* the requests name a URL for every retailer
ServeRetailerLists ==
  { l \in RetailerLists : \A t \in DOMAIN l : l[t].brand_list_url # "" }

\* _progress, first statement: shared_records.clear()
ProgressClear ==
  /\ pc = "on_progress"
  /\ cfg.mode = "serve"
  /\ shared_records' = <<>>
  /\ pc' = "on_progress_extend"
  /\ UNCHANGED <<cfg, idx, tasks, all_records, site_log, progress, call,
                 LAST_SCRAPE_STATS, fetchIn, fetchOut,
                 shared_errors, timed_out, snapshot, completed_at_expiry>>
  /\ UNCHANGED restVars

\* _progress, the rest: shared_records.extend(records_so_far) and the
\* bookkeeping of shared_errors; then control is back in run_pilot
ProgressExtend ==
  /\ pc = "on_progress_extend"
  /\ shared_records' = all_records
  /\ shared_errors' =
       IF call.n = 0 /\ call.error \notin {NoError, ""}
       THEN [shared_errors EXCEPT ![call.source] = call.error]
       ELSE IF call.n > 0
       THEN [shared_errors EXCEPT ![call.source] = NoError]
       ELSE shared_errors
  /\ AfterProgress
  /\ UNCHANGED <<cfg, tasks, all_records, site_log, progress,
                 LAST_SCRAPE_STATS, fetchIn, fetchOut,
                 timed_out, snapshot, completed_at_expiry>>
  /\ UNCHANGED restVars

\* future.result(timeout=...) raises TimeoutError while the worker is still
\* running: records = list(shared_records)
Expire ==
  /\ cfg.mode = "serve"
  /\ ~timed_out
  /\ pc # "returned"
  /\ timed_out' = TRUE
  /\ snapshot' = shared_records
  /\ completed_at_expiry' = { t \in DOMAIN tasks : tasks[t].outcome = "ok" }
  /\ UNCHANGED <<cfg, pc, idx, tasks, all_records, site_log, progress, call,
                 LAST_SCRAPE_STATS, fetchIn, fetchOut, shared_records, shared_errors>>
  /\ UNCHANGED restVars

ServeInit == RunInit(ServeRetailerLists, {ServeRetries}, {"serve"}, {FALSE})

ServeNext ==
  \/ Launch
  \/ SeqTask
  \/ SeqAttempt
  \/ \E t \in DOMAIN tasks : ParAcquire(t)
  \/ \E t \in DOMAIN tasks : ParAttempt(t)
  \/ GatherDone
  \/ ParMerge
  \/ ProgressClear
  \/ ProgressExtend
  \/ Expire
  \/ Close

ServeSpec == ServeInit /\ [][ServeNext]_vars

\* ------------------------------------------------------------------------
\* A batch larger than the worker pool
\* ------------------------------------------------------------------------
PoolTasks == 3

PoolRetailerLists ==
  { [t \in 1..PoolTasks |-> [name |-> SourceNames[t], brand_list_url |-> ListingUrl]] }

PoolInit == RunInit(PoolRetailerLists, {0}, {"direct"}, {FALSE})

PoolSpec == PoolInit /\ [][Next]_vars

\* ------------------------------------------------------------------------
\* Properties of one fetch (FetchSpec)
\* ------------------------------------------------------------------------
\* C2: a fetch with cap hint k >= 0 returns at most k records, whatever the
\* number of pages walked and of raw candidates collected.
CapRespected ==
  (fetchOut # NoFetch /\ fetchIn.cap # NoneV) => Len(fetchOut.records) <= fetchIn.cap[1]

\* a capped fetch that walked two pages and collected more raw candidates than the cap
CapRespectedWitness ==
  /\ fetchOut # NoFetch
  /\ fetchIn.cap # NoneV
  /\ Len(fetchOut.visited) >= 2
  /\ fetchOut.stats # NoneV
  /\ fetchOut.stats[1].raw_count > fetchIn.cap[1]
  /\ Len(fetchOut.records) = fetchIn.cap[1]
  /\ fetchIn.cap[1] >= 1

\* the status of the first navigation's response, when there is one
FirstStatus ==
  IF fetchIn # NoneV /\ fetchIn.site.pages[1].nav.kind = "response"
  THEN Some(fetchIn.site.pages[1].nav.status) ELSE NoneV

\* C4: a fetch whose first response has status 403, 429 or 503 returns blocked,
\* no records and a non-empty error; any other status >= 400 returns not
\* blocked, no records and a non-empty error.
BlockedClassification ==
  (fetchOut # NoFetch /\ FirstStatus # NoneV /\ FirstStatus[1] >= 400) =>
     /\ fetchOut.blocked = (FirstStatus[1] \in {403, 429, 503})
     /\ fetchOut.records = <<>>
     /\ fetchOut.error \notin {NoError, ""}

\* a fetch answered with 429 has returned
BlockedClassificationWitness ==
  /\ fetchOut # NoFetch
  /\ FirstStatus = Some(429)
  /\ fetchOut.blocked
  /\ fetchOut.error = "HTTP 429"

\* ------------------------------------------------------------------------
\* Properties of a run of the orchestrator (Spec)
\* ------------------------------------------------------------------------
HasUrl(t) == cfg.retailers[t].brand_list_url # ""

\* the on_progress invocations made for task t
ReportsOf(t) == SelectSeq(progress, LAMBDA e : e.idx = t)

\* the site_result lines that report a failure of source s
FailureLines(s) ==
  { i \in DOMAIN site_log : site_log[i].source = s /\ ~site_log[i].success }

\* the records of source s in the accumulated list
RecordsFrom(s) == SelectSeq(all_records, LAMBDA rec : rec.source = s)

\* task t was fetched at least once and every fetch returned an error and no records
AlwaysErrors(t) == HasUrl(t) /\ tasks[t].attempts >= 1 /\ tasks[t].all_err

\* task t was fetched at least once and every fetch met a blocking status
AlwaysBlocked(t) == HasUrl(t) /\ tasks[t].attempts >= 1 /\ tasks[t].all_blocked

\* C1: a task with a listing URL whose every fetch attempt returns an error and
\* no records is attempted exactly max_retries + 1 times, on the sequential and
\* on the parallel path, and is then reported as failed with the last error.
RetryBudgetRespected ==
  /\ \A t \in DOMAIN tasks : tasks[t].attempts <= cfg.max_retries + 1
  /\ \A t \in DOMAIN tasks :
       (HasUrl(t) /\ \E i \in DOMAIN progress : progress[i].idx = t /\ progress[i].n = 0)
         => tasks[t].attempts = cfg.max_retries + 1
  /\ pc = "returned" =>
       \A t \in DOMAIN tasks :
         AlwaysErrors(t) =>
           /\ tasks[t].attempts = cfg.max_retries + 1
           /\ tasks[t].outcome = "failed"
           /\ tasks[t].last_error # NoError
           /\ Len(ReportsOf(t)) = 1
           /\ ReportsOf(t)[1].n = 0
           /\ ReportsOf(t)[1].error = tasks[t].last_error
           /\ \E i \in FailureLines(SourceOf(t)) :
                site_log[i].error = tasks[t].last_error /\ site_log[i].brands_count = 0

\* a parallel run with retries has returned; a task met HTTP 500 and then
\* HTTP 403, and is reported with the latter
RetryBudgetWitness ==
  /\ pc = "returned"
  /\ use_parallel
  /\ cfg.max_retries >= 1
  /\ \E t \in DOMAIN tasks :
       /\ AlwaysErrors(t)
       /\ ~tasks[t].all_blocked
       /\ tasks[t].last_error = "HTTP 403"
       /\ tasks[t].attempts = cfg.max_retries + 1
       /\ ReportsOf(t)[1].error = "HTTP 403"

\* C3: when one task yields records and another meets a blocking status on
\* every attempt, the returned list holds exactly the records of the
\* succeeding task and the failing task is reported with blocked = true and a
\* non-empty error, on either path.
BlockedOutcomeSurfaced ==
  (pc = "returned" /\ cfg.max_brands = NoneV
     /\ \E u \in DOMAIN tasks : tasks[u].outcome = "ok") =>
    \A t \in DOMAIN tasks :
      AlwaysBlocked(t) =>
        /\ RecordsFrom(SourceOf(t)) = <<>>
        /\ \A u \in DOMAIN tasks :
             tasks[u].outcome = "ok" => RecordsFrom(SourceOf(u)) = tasks[u].fetched
        /\ Len(ReportsOf(t)) = 1
        /\ ReportsOf(t)[1].error \notin {NoError, ""}
        /\ \E i \in FailureLines(SourceOf(t)) :
             site_log[i].blocked_or_captcha /\ site_log[i].error \notin {NoError, ""}

\* C5: a task whose every attempt fails (error outcome or page exception) does
\* not abort the batch: the run does not raise, every other task is still
\* fetched and its records are in the returned list (all of them when no
\* global cap is given, and otherwise up to the point where the cap is met).
FailureIsolated ==
  /\ pc # "raised"
  /\ (pc = "returned"
        /\ \E t \in DOMAIN tasks : tasks[t].attempts >= 1 /\ tasks[t].outcome = "failed") =>
       \A u \in DOMAIN tasks :
         LET mine == RecordsFrom(SourceOf(u))
             met  == cfg.max_brands # NoneV /\ Len(all_records) >= cfg.max_brands[1]
         IN  /\ HasUrl(u) => (tasks[u].attempts >= 1 \/ met)
             /\ tasks[u].outcome = "ok" =>
                  /\ mine = Take(tasks[u].fetched, Len(mine))
                  /\ mine = tasks[u].fetched \/ met

\* a sequential run without global cap has returned; a task ended on a page
\* exception and the task after it was fetched and contributed its records
FailureIsolatedWitness ==
  /\ pc = "returned"
  /\ ~use_parallel
  /\ cfg.max_brands = NoneV
  /\ \E t, u \in DOMAIN tasks :
       /\ t < u
       /\ tasks[t].outcome = "failed"
       /\ tasks[t].error = "Target page closed"
       /\ tasks[u].outcome = "ok"
       /\ tasks[u].fetched # <<>>
       /\ all_records = tasks[u].fetched

\* C6: before the run returns, on_progress has been invoked exactly once for
\* every task of the batch, skipped or truncated tasks included, on both paths.
ProgressOncePerTask ==
  pc = "returned" => \A t \in DOMAIN tasks : Len(ReportsOf(t)) = 1

\* the records accumulated by the tasks before task t
RECURSIVE AddedBefore(_)
AddedBefore(t) == IF t <= 1 THEN 0 ELSE AddedBefore(t - 1) + tasks[t - 1].added

\* C9: with a global cap g and no per-retailer cap, the accumulated list never
\* holds more than g records on either path; on the sequential path every
\* fetch is asked for g minus the records accumulated so far, and no task is
\* fetched once g records are accumulated.
GlobalCapRespected ==
  (cfg.max_brands # NoneV /\ cfg.max_brands_per_retailer = NoneV) =>
    /\ Len(all_records) <= cfg.max_brands[1]
    /\ ~use_parallel =>
         \A t \in DOMAIN tasks :
           tasks[t].attempts >= 1 =>
             /\ tasks[t].asked = Some(cfg.max_brands[1] - AddedBefore(t))
             /\ AddedBefore(t) < cfg.max_brands[1]
    /\ (~use_parallel /\ Len(all_records) >= cfg.max_brands[1]) =>
         \A t \in DOMAIN tasks : t > idx => tasks[t].attempts = 0

\* a sequential run under a global cap: the second task was asked for the one
\* record still missing and the cap is met
GlobalCapSequentialWitness ==
  /\ pc = "returned"
  /\ ~use_parallel
  /\ cfg.max_brands_per_retailer = NoneV
  /\ cfg.max_brands # NoneV
  /\ Len(all_records) = cfg.max_brands[1]
  /\ \E t \in DOMAIN tasks :
       /\ t >= 2
       /\ tasks[t].asked = Some(1)
       /\ tasks[t].added = 1
       /\ AddedBefore(t) >= 1

\* C10: with a per-retailer cap p, every task's fetch is asked for p records
\* and everything the fetch returns is added to the result, whatever the
\* other tasks contributed and whatever the global cap, on both paths.
PerRetailerCapIndependent ==
  (pc = "returned" /\ cfg.max_brands_per_retailer # NoneV) =>
    \A t \in DOMAIN tasks :
      HasUrl(t) =>
        /\ tasks[t].attempts >= 1
        /\ tasks[t].asked = cfg.max_brands_per_retailer
        /\ tasks[t].outcome = "ok" =>
             /\ tasks[t].added = Len(tasks[t].fetched)
             /\ RecordsFrom(SourceOf(t)) = tasks[t].fetched

\* ------------------------------------------------------------------------
\* Properties of a run whose callback can raise (FaultSpec)
\* ------------------------------------------------------------------------

\* C7: a failing on_progress invocation (or the logging next to it) does not
\* abort the batch: run_pilot does not raise, the remaining tasks are still
\* processed and the accumulated list is returned.
CallbackFailureContained ==
  /\ cfg.io_fails => pc # "raised"
  /\ (cfg.io_fails /\ pc = "returned") =>
       \A t \in DOMAIN tasks :
         /\ HasUrl(t) => (tasks[t].attempts >= 1 \/ SeqLoopBreaks)
         /\ tasks[t].outcome = "ok" <=> RecordsFrom(SourceOf(t)) # <<>>
         /\ tasks[t].added <= Len(tasks[t].fetched)

\* ------------------------------------------------------------------------
\* Properties of a run under the server's deadline (ServeSpec)
\* ------------------------------------------------------------------------

\* C8: when the deadline expires while the batch is running, the partial
\* result holds the records of every task whose fetch had completed
\* successfully before the expiry, on the sequential and on the parallel path.
PartialResultKeepsCompletedWork ==
  (timed_out /\ cfg.max_brands = NoneV) =>
    \A t \in completed_at_expiry :
      SelectSeq(snapshot, LAMBDA rec : rec.source = SourceOf(t)) = tasks[t].fetched

\* ------------------------------------------------------------------------
\* Properties of the worker pool (PoolSpec)
\* ------------------------------------------------------------------------

\* C11: on the parallel path the number of tasks inside their retry loop (each
\* holds at most one open page) never exceeds the configured concurrency;
\* the other tasks wait for a slot.
ConcurrencyBounded ==
  /\ Cardinality(Running) <= cfg.concurrency
  /\ (pc = "gather" /\ Waiting # {} /\ Cardinality(Running) < cfg.concurrency) =>
       \A t \in DOMAIN tasks : \A w \in Waiting : t > w => tasks[t].st = "waiting"

\* the pool is full and a task waits for a slot
ConcurrencyBoundedWitness ==
  /\ pc = "gather"
  /\ NumTasks > cfg.concurrency
  /\ Cardinality(Running) = cfg.concurrency
  /\ Waiting # {}


\* ------------------------------------------------------------------------
\* The retry delays of one permanently failing source
\* (src/src/scraper.py, _retry_delay_seconds and the loop of
\* _scrape_one_retailer)
\* ------------------------------------------------------------------------
\* resolution of time: ticks per second
TicksPerSecond == 2
MaxDelayRetries == 6

\* SCRAPE_RETRY_BASE and SCRAPE_RETRY_CAP, in seconds
DefaultRetryBase == 1
DefaultRetryCap == 30

RECURSIVE Pow2(_)
Pow2(n) == IF n <= 0 THEN 1 ELSE 2 * Pow2(n - 1)

\* the values of SCRAPE_RETRY_BASE and SCRAPE_RETRY_CAP tried, in ticks
RetryBaseChoices == {1, DefaultRetryBase * TicksPerSecond}
RetryCapChoices == {4 * TicksPerSecond, DefaultRetryCap * TicksPerSecond}

\* random.uniform(0, 1), in ticks
Jitter == 0..TicksPerSecond

\* variant: the exponent starts at zero
_retry_delay_seconds_from_zero(base, cap, attempt, jitter) ==
  Min(cap, base * Pow2(attempt - 1)) + jitter

\* sec = min(cap, base * (2 ** attempt)); return sec + random.uniform(0, 1)
_retry_delay_seconds(base, cap, attempt, jitter) ==
  Min(cap, base * Pow2(attempt)) + jitter

\* everything of run_pilot, the fetcher and _run_scraper at rest
RunIdle ==
  /\ fetchOut = NoFetch
  /\ cfg = NoneV
  /\ idx = 0
  /\ tasks = <<>>
  /\ all_records = <<>>
  /\ site_log = <<>>
  /\ progress = <<>>
  /\ call = NoCall
  /\ LAST_SCRAPE_STATS = [s \in AllSources |-> NoneV]
  /\ shared_records = <<>>
  /\ shared_errors = [s \in AllSources |-> NoError]
  /\ timed_out = FALSE
  /\ snapshot = <<>>
  /\ completed_at_expiry = {}

runVars == <<fetchIn, fetchOut, cfg, idx, tasks, all_records, site_log, progress,
             call, LAST_SCRAPE_STATS, shared_records, shared_errors, timed_out,
             snapshot, completed_at_expiry>>

DelayInit ==
  /\ RunIdle
  /\ fetchIn = NoneV
  /\ pc = "attempt"
  /\ environ = DefaultEnviron /\ norm = NoneV /\ payload = NoneV
  /\ backoff \in [base : RetryBaseChoices, cap : RetryCapChoices,
                  max_retries : 0..MaxDelayRetries, attempt : {0}, delays : {<<>>}]

\* the attempt fails and another one is left: the loop sleeps
\* _retry_delay_seconds(attempt) before it
RetryAfterFailure ==
  /\ pc = "attempt"
  /\ backoff.attempt < backoff.max_retries
  /\ \E jitter \in Jitter :
       backoff' = [backoff EXCEPT
                     !.attempt = @ + 1,
                     !.delays = Append(@, _retry_delay_seconds(backoff.base, backoff.cap,
                                                               backoff.attempt + 1, jitter))]
  /\ UNCHANGED <<pc, runVars, environ, norm, payload>>

\* the last attempt fails: the loop ends
GiveUp ==
  /\ pc = "attempt"
  /\ backoff.attempt = backoff.max_retries
  /\ pc' = "gave_up"
  /\ UNCHANGED <<runVars, restVars>>

DelayNext == RetryAfterFailure \/ GiveUp

DelaySpec == DelayInit /\ [][DelayNext]_vars

\* ------------------------------------------------------------------------
\* One fetch of a paginated listing whose pages expose distinct valid names
\* ------------------------------------------------------------------------
ListingPages == 3
ListingLinks == 3

\* the text of link j of page i, and the brand it stands for
ListingRaw(i, j) == <<"q", LowerLetters[i], LowerLetters[j], "U+00AE">>
ListingBrand(i, j) == <<"Q", LowerLetters[i], LowerLetters[j]>>

\* p pages of k links each, chained by next links; the last page links nowhere
\* or back to the first; the whole-page scan sees the same links as the scoped
\* pass
ListingSite(p, k, last, ay) ==
  [pages |-> [i \in 1..p |->
                [scoped   |-> [j \in 1..k |-> ListingRaw(i, j)],
                 fallback |-> [j \in 1..k |-> ListingRaw(i, j)],
                 next     |-> IF i < p THEN i + 1 ELSE last,
                 nav      |-> StatusResp(200)]],
   aboutyou |-> ay]

ListingSites ==
  { ListingSite(p, k, last, ay) :
      p \in 1..ListingPages, k \in 1..ListingLinks, last \in {0, 1}, ay \in BOOLEAN }

ListingInit ==
  /\ RunIdle
  /\ RestIdle
  /\ pc = "fetch"
  /\ fetchIn \in [site : ListingSites, cap : {NoneV, Some(ListingLinks + 1)},
                  max_pages : 1..ListingPages]

ListingSpec == ListingInit /\ [][FetchNext]_vars

\* ------------------------------------------------------------------------
\* run_pilot over a batch whose tasks may share a name
\* ------------------------------------------------------------------------
\* retailers: MaxTasks tasks, each named r1 or r2, all with a listing URL
SharedNameLists ==
  { [t \in 1..MaxTasks |-> [name |-> names[t], brand_list_url |-> ListingUrl]] :
      names \in [1..MaxTasks -> {SourceNames[1], SourceNames[2]}] }

SharedNameInit == RunInit(SharedNameLists, {0}, {"direct"}, {FALSE})

SharedNameSpec == SharedNameInit /\ [][Next]_vars

\* ------------------------------------------------------------------------
\* One fetch of a listing that spells a name in Georgian capitals (Mtavruli)
\* on one link and in small letters (Mkhedruli) on another
\* ------------------------------------------------------------------------
RawMtavruli  == <<GeorgianUpper, GeorgianUpper>>
RawMkhedruli == <<GeorgianLower, GeorgianLower>>

MixedScriptKinds ==
  << [scoped |-> <<RawMtavruli, RawNike, RawZara>>,  fallback |-> <<>>],
     [scoped |-> <<RawMkhedruli, RawNIKE, RawPuma>>, fallback |-> <<>>],
     [scoped |-> <<RawNikeReg, RawMtavruli, RawMkhedruli>>, fallback |-> <<RawShop>>] >>

MixedScriptSites ==
  UNION { { [pages |-> [i \in 1..n |->
                          [scoped   |-> MixedScriptKinds[kinds[i]].scoped,
                           fallback |-> MixedScriptKinds[kinds[i]].fallback,
                           next     |-> IF i < n THEN i + 1 ELSE 0,
                           nav      |-> StatusResp(200)]],
             aboutyou |-> ay] :
              kinds \in [1..n -> DOMAIN MixedScriptKinds], ay \in BOOLEAN } :
          n \in 1..MaxChain }

MixedScriptInit ==
  /\ RunIdle
  /\ RestIdle
  /\ pc = "fetch"
  /\ fetchIn \in [site : MixedScriptSites, cap : CapChoices, max_pages : 1..MaxPagesEnv]

MixedScriptSpec == MixedScriptInit /\ [][FetchNext]_vars

\* ------------------------------------------------------------------------
\* The normaliser on its own: normalize_brand_name applied to a string, then
\* to its own result
\* ------------------------------------------------------------------------
MaxStrLen == 4

NormAlphabet == {"a", "B", DottedI, "1", "-", " ", "U+FB01", "U+00C7"}

RECURSIVE StringsOfLen(_)
StringsOfLen(n) ==
  IF n = 0 THEN {<<>>}
  ELSE { Append(s, c) : s \in StringsOfLen(n - 1), c \in NormAlphabet }

NormInputs == UNION { StringsOfLen(n) : n \in 0..MaxStrLen }

NormInit ==
  /\ RunIdle
  /\ fetchIn = NoneV
  /\ pc = "normalize"
  /\ environ = DefaultEnviron /\ backoff = NoneV /\ payload = NoneV
  /\ norm \in [x : NormInputs, passes : {0}, once : {<<>>}, twice : {<<>>}]

\* normalize_brand_name(x)
NormalizeOnce ==
  /\ pc = "normalize"
  /\ norm.passes = 0
  /\ norm' = [norm EXCEPT !.passes = 1, !.once = normalize_brand_name(norm.x)]
  /\ UNCHANGED <<pc, runVars, environ, backoff, payload>>

\* normalize_brand_name applied to the result of the first pass
NormalizeAgain ==
  /\ pc = "normalize"
  /\ norm.passes = 1
  /\ norm' = [norm EXCEPT !.passes = 2, !.twice = normalize_brand_name(norm.once)]
  /\ UNCHANGED <<pc, runVars, environ, backoff, payload>>

NormNext == NormalizeOnce \/ NormalizeAgain

NormSpec == NormInit /\ [][NormNext]_vars

\* ------------------------------------------------------------------------
\* dedupe_brand_names on its own: applied to a list, then to its own result
\* ------------------------------------------------------------------------
MaxListLen == 3

RawDotted == <<"a", DottedI>>
RawAi     == <<"A", "i">>

DedupeNames == {RawNike, RawNIKE, RawZara, RawShop, RawDotted, RawAi}

RECURSIVE ListsOfLen(_)
ListsOfLen(n) ==
  IF n = 0 THEN {<<>>}
  ELSE { Append(xs, x) : xs \in ListsOfLen(n - 1), x \in DedupeNames }

DedupeInputs == UNION { ListsOfLen(n) : n \in 0..MaxListLen }

DedupeInit ==
  /\ RunIdle
  /\ fetchIn = NoneV
  /\ pc = "dedupe"
  /\ environ = DefaultEnviron /\ backoff = NoneV /\ payload = NoneV
  /\ norm \in [x : DedupeInputs, passes : {0}, once : {<<>>}, twice : {<<>>}]

\* dedupe_brand_names(xs)
DedupeOnce ==
  /\ pc = "dedupe"
  /\ norm.passes = 0
  /\ norm' = [norm EXCEPT !.passes = 1, !.once = dedupe_brand_names(norm.x)]
  /\ UNCHANGED <<pc, runVars, environ, backoff, payload>>

\* dedupe_brand_names applied to the result of the first pass
DedupeAgain ==
  /\ pc = "dedupe"
  /\ norm.passes = 1
  /\ norm' = [norm EXCEPT !.passes = 2, !.twice = dedupe_brand_names(norm.once)]
  /\ UNCHANGED <<pc, runVars, environ, backoff, payload>>

DedupeNext == DedupeOnce \/ DedupeAgain

DedupeSpec == DedupeInit /\ [][DedupeNext]_vars

\* ------------------------------------------------------------------------
\* src/serve.py: the response of /scrape and /scrape-multiple
\* ------------------------------------------------------------------------
NotRunMessage == "Not run (server timeout)"
NoBrandsMessage == "Server timeout before any brands returned"

\* records as returned by _run_scraper, cut to max_brands by the handler
ResponseRecords ==
  LET records == IF timed_out THEN snapshot ELSE all_records IN
  IF cfg.max_brands # NoneV /\ Len(records) > cfg.max_brands[1]
     /\ (NumTasks = 1 \/ cfg.max_brands_per_retailer = NoneV)
  THEN Take(records, cfg.max_brands[1])
  ELSE records

\* scrape_multiple: the entry of results_by_retailer for task t
ResultEntry(records, t) ==
  LET source == SourceOf(t)
      count  == Len(SelectSeq(records, LAMBDA rec : rec.source = source))
  IN  [source |-> source,
       count  |-> count,
       error  |-> IF count = 0
                  THEN IF shared_errors[source] # NoError THEN shared_errors[source]
                       ELSE IF timed_out THEN NotRunMessage
                       ELSE NoError
                  ELSE NoError]

\* scrape: the single retailer's error field
SingleEntry(records) ==
  [source |-> SourceOf(1),
   count  |-> Len(records),
   error  |-> IF Len(records) = 0 /\ shared_errors[SourceOf(1)] # NoError
              THEN shared_errors[SourceOf(1)]
              ELSE IF Len(records) = 0 /\ timed_out THEN NoBrandsMessage
              ELSE NoError]

\* _run_scraper has returned (the executor's with block waits for the worker
\* even after a timeout) and the handler builds the JSON response
Respond ==
  /\ cfg.mode = "serve"
  /\ pc = "returned"
  /\ payload = NoneV
  /\ payload' = Some([records |-> ResponseRecords,
                      partial_timeout |-> timed_out,
                      results |-> IF NumTasks = 1
                                  THEN <<SingleEntry(ResponseRecords)>>
                                  ELSE [t \in 1..NumTasks |-> ResultEntry(ResponseRecords, t)]])
  /\ UNCHANGED <<runVars, pc, environ, norm, backoff>>

RespondNext == ServeNext \/ Respond

RespondSpec == ServeInit /\ [][RespondNext]_vars

\* ------------------------------------------------------------------------
\* One fetch under integer settings of the environment that are out of range
\* ------------------------------------------------------------------------
OutOfRange == {-1, 0}

EnvironChoices ==
  [SCRAPER_GATHER_CHUNK : OutOfRange \cup {DefaultGatherChunk},
   SCRAPER_MAX_PAGES    : OutOfRange \cup {DefaultMaxPages},
   SCRAPER_CONCURRENCY  : {DefaultConcurrency}]

\* chains of pages that all load
EnvSites ==
  UNION { { [pages |-> [i \in 1..n |->
                          [scoped   |-> PageKinds[kinds[i]].scoped,
                           fallback |-> PageKinds[kinds[i]].fallback,
                           next     |-> IF i < n THEN i + 1 ELSE 0,
                           nav      |-> StatusResp(200)]],
             aboutyou |-> FALSE] :
              kinds \in [1..n -> DOMAIN PageKinds] } :
          n \in 1..MaxChain }

\* max_pages = int(os.environ.get("SCRAPER_MAX_PAGES", "10")): the fetch reads
\* its page ceiling from the environment
EnvInit ==
  /\ RunIdle
  /\ pc = "fetch"
  /\ norm = NoneV /\ backoff = NoneV /\ payload = NoneV
  /\ environ \in EnvironChoices
  /\ fetchIn \in [site : EnvSites, cap : {NoneV}, max_pages : {environ.SCRAPER_MAX_PAGES}]

EnvSpec == EnvInit /\ [][FetchNext]_vars

\* the un-jittered part of the delay before retry n of the loop in flight
CappedBackoff(n) == Min(backoff.cap, backoff.base * Pow2(n))

\* C12 as stated: the delay before retry n + 1 is strictly greater than the
\* delay before retry n, for every retry n >= 1.
DelaysStrictlyIncreasing ==
  backoff # NoneV =>
    \A n \in 1..(Len(backoff.delays) - 1) : backoff.delays[n + 1] > backoff.delays[n]

\* C12 (amended): the delay before retry n is min(cap, base * 2^n) plus a jitter
\* in [0, 1]; it is strictly greater than the previous one wherever the capped
\* exponential grows by more than one second, and a permanently failing source
\* waits max_retries delays in all.
DelaysIncreaseBelowCap ==
  backoff # NoneV =>
    /\ Len(backoff.delays) = backoff.attempt
    /\ pc = "gave_up" => backoff.attempt = backoff.max_retries
    /\ \A n \in 1..Len(backoff.delays) :
         /\ backoff.delays[n] >= CappedBackoff(n)
         /\ backoff.delays[n] <= CappedBackoff(n) + TicksPerSecond
    /\ \A n \in 1..(Len(backoff.delays) - 1) :
         CappedBackoff(n + 1) - CappedBackoff(n) > TicksPerSecond =>
           backoff.delays[n + 1] > backoff.delays[n]

\* a loop with the default base and cap gave up after delays that grew and then
\* stayed at the cap
DelaysIncreaseBelowCapWitness ==
  /\ backoff # NoneV /\ pc = "gave_up"
  /\ backoff.base = DefaultRetryBase * TicksPerSecond
  /\ backoff.cap = DefaultRetryCap * TicksPerSecond
  /\ Len(backoff.delays) >= 2
  /\ backoff.delays[2] > backoff.delays[1]
  /\ \E n \in 1..(Len(backoff.delays) - 1) :
       /\ CappedBackoff(n) = backoff.cap
       /\ backoff.delays[n + 1] <= backoff.delays[n]

\* the number of pages of the listing fetched and of links per page
ListingP == Len(fetchIn.site.pages)
ListingK == Len(fetchIn.site.pages[1].scoped)

\* C13: a listing of P pages chained by next links (P not above the page
\* ceiling, no cycle), every page exposing valid names shared with no other
\* page, fetched with no cap: the P URLs are visited in next-link order and
\* exactly one record per name is returned, in page order.
ListingFullyWalked ==
  (/\ fetchOut # NoFetch
   /\ fetchIn.cap = NoneV
   /\ ListingP <= fetchIn.max_pages
   /\ fetchIn.site.pages[ListingP].next = 0)
  => /\ fetchOut.error = NoError
     /\ fetchOut.visited = [i \in 1..ListingP |-> i]
     /\ Len(fetchOut.records) = ListingP * ListingK
     /\ \A i \in 1..ListingP : \A j \in 1..ListingK :
          fetchOut.records[(i - 1) * ListingK + j] =
            [brand |-> ListingBrand(i, j), source |-> SourceNames[1]]

\* the longest listing (three pages of three links) was walked to the end
ListingFullyWalkedWitness ==
  /\ fetchOut # NoFetch
  /\ fetchIn.cap = NoneV
  /\ ListingP = ListingPages /\ ListingK = ListingLinks
  /\ fetchIn.max_pages = ListingPages
  /\ fetchIn.site.pages[ListingP].next = 0
  /\ Len(fetchOut.visited) = ListingPages
  /\ Len(fetchOut.records) = ListingPages * ListingLinks

\* C14: whatever the names of the tasks, the list run_pilot returns holds no
\* two records with the same (brand, source) pair.
NoDuplicatePairs ==
  pc = "returned" =>
    \A i, j \in DOMAIN all_records :
       i # j => all_records[i] # all_records[j]

\* C15: every record of one fetch has a non-empty brand that the noise filter
\* does not reject, and no two records of the fetch have brands that are equal
\* when compared case-insensitively, whatever pages the names came from.
FetchBrandsCleanAndUnique ==
  fetchOut # NoFetch =>
    /\ \A i \in DOMAIN fetchOut.records :
         /\ fetchOut.records[i].brand # <<>>
         /\ ~is_noise_phrase(fetchOut.records[i].brand)
    /\ \A i, j \in DOMAIN fetchOut.records :
         i # j => lower(fetchOut.records[i].brand) # lower(fetchOut.records[j].brand)


\* C16: normalize is idempotent: a second pass returns the result of the first
\* (an accepted name is returned unchanged, a rejected input stays rejected).
NormalizeIdempotent ==
  (norm # NoneV /\ norm.passes = 2) => norm.twice = norm.once

\* the position in xs of the first element that normalises to name n
FirstOccurrence(xs, n) ==
  CHOOSE k \in DOMAIN xs :
    /\ normalize_brand_name(xs[k]) = n
    /\ \A h \in 1..(k - 1) : normalize_brand_name(xs[h]) # n

\* C17: dedupe is idempotent and order-preserving: a second pass returns the
\* result of the first, and the survivors appear in the order of their first
\* occurrence in the input.
DedupeStable ==
  /\ (norm # NoneV /\ norm.passes >= 1) =>
       /\ \A i \in DOMAIN norm.once :
            \E k \in DOMAIN norm.x : normalize_brand_name(norm.x[k]) = norm.once[i]
       /\ \A i, j \in DOMAIN norm.once :
            i < j => FirstOccurrence(norm.x, norm.once[i]) < FirstOccurrence(norm.x, norm.once[j])
  /\ (norm # NoneV /\ norm.passes = 2) => norm.twice = norm.once


\* digits are at least half of the characters of s
HalfDigits(s) == s # <<>> /\ 2 * DigitCount(s) >= Len(s)

\* s has the letter-group index shape: one to three letters, a hyphen, one to
\* three letters
LetterGroupShape(s) == LETTER_GROUP_PATTERN(s)

\* C18: normalize returns the empty string for every input in which digits are
\* at least half of the characters and for every input of the letter-group
\* index shape; conversely the digit rule rejects only strings in which digits
\* make up at least half of the characters.
NoiseRejectionExact ==
  (norm # NoneV /\ norm.passes >= 1) =>
    /\ HalfDigits(norm.x) => norm.once = <<>>
    /\ LetterGroupShape(norm.x) => norm.once = <<>>
    /\ (Len(Cleaned(norm.x)) >= 2 /\ MostlyDigits(Cleaned(norm.x)))
         => HalfDigits(Cleaned(norm.x))

\* C19: in a response, every source that contributed zero records carries an
\* error string: the last failure reason when its own fetch failed, and the
\* timeout message only when the deadline expired.
ZeroRecordSourcesExplained ==
  payload # NoneV =>
    \A t \in DOMAIN payload[1].results :
       LET e == payload[1].results[t] IN
       e.count = 0 =>
         /\ e.error # NoError
         /\ tasks[t].outcome = "failed" => e.error = tasks[t].error
         /\ e.error \in {NotRunMessage, NoBrandsMessage} => timed_out

\* the candidates a page yields under the default batch size, with no budget
DefaultCandidates(page) ==
  IF Len(page.scoped) < 3 THEN page.scoped \o page.fallback ELSE page.scoped

RECURSIVE CandidatesOf(_, _)
CandidatesOf(site, visited) ==
  IF visited = <<>> THEN <<>>
  ELSE DefaultCandidates(site.pages[Head(visited)]) \o CandidatesOf(site, Tail(visited))

\* C20: with an integer setting of the environment at zero or below, the fetch
\* completes without failing and every page it visits yields the candidates it
\* yields under the default value.
OutOfRangeSettingsClamped ==
  (/\ fetchOut # NoFetch
   /\ \/ environ.SCRAPER_GATHER_CHUNK <= 0
      \/ environ.SCRAPER_MAX_PAGES <= 0)
  => /\ fetchOut.error = NoError
     /\ fetchOut.visited # <<>>
     /\ fetchOut.stats # NoneV
     /\ fetchOut.stats[1].raw_count = Len(CandidatesOf(fetchIn.site, fetchOut.visited))

\* ------------------------------------------------------------------------
\* scrape_brands_from_url on a listing whose next links form any graph
\* ------------------------------------------------------------------------
WalkPages == 3
WalkLinks == 3

\* what page.goto can do on a page after the first
WalkNavFailures == {StatusResp(403), StatusResp(500), NoResp, TimeoutExc}

\* pages 1..p of WalkLinks links each; next[i] is the page the next link of
\* page i leads to (0: no next link; i itself and earlier pages included);
\* navigation to page failAt (0: none) ends as fail
WalkSite(p, next, failAt, fail) ==
  [pages |-> [i \in 1..p |->
                [scoped   |-> [j \in 1..WalkLinks |-> ListingRaw(i, j)],
                 fallback |-> <<>>,
                 next     |-> next[i],
                 nav      |-> IF i = failAt THEN fail ELSE StatusResp(200)]],
   aboutyou |-> FALSE]

\* the listings of up to n pages
WalkSites(n) ==
  UNION { { WalkSite(p, next, failAt, fail) :
              next \in [1..p -> 0..p], failAt \in {0} \cup 2..p,
              fail \in WalkNavFailures }
          : p \in 1..n }

\* SCRAPER_MAX_PAGES from below 1 up to more than the pages there are
WalkInit ==
  /\ RunIdle
  /\ RestIdle
  /\ pc = "fetch"
  /\ fetchIn \in [site : WalkSites(WalkPages), cap : {NoneV}, max_pages : (-1)..(WalkPages + 1)]

WalkSpec == WalkInit /\ [][FetchNext]_vars

\* ------------------------------------------------------------------------
\* run_pilot over retailers whose listing may hold no brand link
\* ------------------------------------------------------------------------
QuietLists ==
  UNION { { [t \in 1..n |-> [name |-> SourceNames[t], brand_list_url |-> urls[t]]] :
              urls \in [1..n -> {ListingUrl, QuietUrl}] } :
          n \in 1..MaxTasks }

QuietInit == RunInit(QuietLists, {MaxRetries}, {"direct"}, {FALSE})

QuietSpec == QuietInit /\ [][Next]_vars

\* ------------------------------------------------------------------------
\* two fetches of one source in one process (LAST_SCRAPE_STATS is a module
\* global: it lives across runs and requests)
\* ------------------------------------------------------------------------
RefetchSites ==
  { SinglePage(k) : k \in DOMAIN PageKinds }
    \cup { FailSite(r) : r \in {StatusResp(403), StatusResp(500), NoResp, TimeoutExc} }
    \cup { QuietSite }

RefetchInit ==
  /\ RunIdle
  /\ RestIdle
  /\ pc = "first_fetch"
  /\ fetchIn \in [first : RefetchSites, second : RefetchSites,
                  cap : {NoneV, Some(1)}]

\* scrape_brands_from_url for SourceNames[1] against site, and its write to
\* LAST_SCRAPE_STATS, which only the path that returns records reaches
FetchOf(site) ==
  /\ fetchOut' = scrape_brands_from_url(site, SourceNames[1], fetchIn.cap,
                                        DefaultMaxPages)
  /\ LAST_SCRAPE_STATS' =
       IF fetchOut'.stats # NoneV
       THEN [LAST_SCRAPE_STATS EXCEPT ![SourceNames[1]] = fetchOut'.stats]
       ELSE LAST_SCRAPE_STATS
  /\ UNCHANGED <<fetchIn, cfg, idx, tasks, all_records, site_log, progress, call,
                 shared_records, shared_errors, timed_out, snapshot,
                 completed_at_expiry>>
  /\ UNCHANGED restVars

FirstFetch ==
  /\ pc = "first_fetch"
  /\ pc' = "second_fetch"
  /\ FetchOf(fetchIn.first)

SecondFetch ==
  /\ pc = "second_fetch"
  /\ pc' = "fetched_twice"
  /\ FetchOf(fetchIn.second)

RefetchNext == FirstFetch \/ SecondFetch

RefetchSpec == RefetchInit /\ [][RefetchNext]_vars

\* ------------------------------------------------------------------------
\* run_pilot when a page operation of an iteration can raise with the page
\* open
\* ------------------------------------------------------------------------
PageInit ==
  RunInitWith(RetailerLists, {MaxRetries}, {"direct"}, {FALSE}, {PageStages})

PageSpec == PageInit /\ [][Next]_vars

\* ------------------------------------------------------------------------
\* src/src/scraper.py: the extraction of one page, link by link
\* ------------------------------------------------------------------------
\* An anchor is [text, href, named]: its visible text, its href, and whether
\* it sits under [data-brand] or carries the class brand-name or designer-name.

\* the words of the pattern in _looks_like_brand
BrandStopWords ==
  { <<"s","h","o","p">>, <<"v","i","e","w">>, <<"s","e","e">>, <<"a","l","l">>,
    <<"m","o","r","e">>, <<"f","i","l","t","e","r">>, <<"s","o","r","t">> }

\* the words of the pattern in _looks_like_button_or_noise
ButtonStopWords ==
  BrandStopWords \cup
  { <<"s","a","l","e">>, <<"b","r","a","n","d">>, <<"b","r","a","n","d","s">>,
    <<"d","e","s","i","g","n","e","r">>, <<"d","e","s","i","g","n","e","r","s">> }

\* re.search(r"\b(w1|w2|...)\b", t, re.I)
SearchWord(t, words) ==
  LET tl == MapSeq(LowerChar, t) IN
  \E w \in words : \E i \in 1..(Len(t) - Len(w) + 1) :
     /\ SubSeq(tl, i, i + Len(w) - 1) = w
     /\ (i = 1 \/ ~IsWordChar(t[i - 1]))
     /\ (i + Len(w) > Len(t) \/ ~IsWordChar(t[i + Len(w)]))

\* str.isdigit()
isdigit(t) == t # <<>> /\ \A i \in DOMAIN t : t[i] \in DigitChars

_looks_like_button_or_noise(text) ==
  LET t == strip(text) IN
  \/ Len(t) < 2 \/ Len(t) > 80
  \/ SearchWord(t, ButtonStopWords)
  \/ Contains(lower(t), <<"a","n","a"," ","s","a","y","f","a">>)
  \/ Contains(lower(t), <<"h","o","m","e"," ","p","a","g","e">>)
  \/ LETTER_GROUP_PATTERN(t)
  \/ isdigit(t)

_looks_like_brand(text) ==
  LET t == strip(text) IN
  /\ Len(t) >= 2 /\ Len(t) <= 80
  /\ ~SearchWord(t, BrandStopWords)
  /\ ~isdigit(t)

\* the directory names of BRAND_PATH_PATTERN
BrandDirs ==
  { <<"b","r","a","n","d">>, <<"b","r","a","n","d","s">>,
    <<"d","e","s","i","g","n","e","r">>, <<"d","e","s","i","g","n","e","r","s">>,
    <<"c","o","l","l","e","c","t","i","o","n">>,
    <<"c","o","l","l","e","c","t","i","o","n","s">>,
    <<"m","e","r","k">>, <<"m","a","r","q","u","e">>, <<"m","a","r","q","u","e","s">>,
    <<"v","a","r","u","m","a","r","k","e","n">>, <<"b">> }

\* BRAND_PATH_PATTERN.search(h): "/" dir "/" followed by a character other
\* than "/", "?" and "#", case-insensitively
BRAND_PATH_PATTERN(h) ==
  LET hl == MapSeq(LowerChar, h) IN
  \E d \in BrandDirs : \E i \in 1..Len(h) :
     /\ i + Len(d) + 2 <= Len(h)
     /\ SubSeq(hl, i, i + Len(d) + 1) = <<"/">> \o d \o <<"/">>
     /\ h[i + Len(d) + 2] \notin {"/", "?", "#"}

\* the part of s before the first occurrence of one of the characters cs
RECURSIVE Before(_, _)
Before(s, cs) ==
  IF s = <<>> \/ Head(s) \in cs THEN <<>> ELSE <<Head(s)>> \o Before(Tail(s), cs)

\* the part of s after its last "/"
RECURSIVE LastSegment(_)
LastSegment(s) ==
  IF \E i \in DOMAIN s : s[i] = "/" THEN LastSegment(Tail(s)) ELSE s

RECURSIVE StripSlashes(_)
StripSlashes(s) ==
  IF s # <<>> /\ Head(s) = "/" THEN StripSlashes(Tail(s))
  ELSE IF s # <<>> /\ s[Len(s)] = "/" THEN StripSlashes(SubSeq(s, 1, Len(s) - 1))
  ELSE s

\* _slug_from_href for a relative href without "%": the last path segment,
\* hyphens turned into spaces, trimmed; NoneV when it is not usable
_slug_from_href(href) ==
  IF href = <<>> \/ "?" \in Range(Before(href, {"#"})) THEN NoneV
  ELSE LET path == StripSlashes(Before(href, {"?", "#"}))
           slug == strip([i \in DOMAIN LastSegment(path) |->
                            IF LastSegment(path)[i] = "-" THEN " "
                            ELSE LastSegment(path)[i]])
       IN  IF path = <<>> \/ Len(slug) < 2 \/ Len(slug) > 60
              \/ \E i \in DOMAIN slug : ~IsAllowedChar(slug[i])
           THEN NoneV
           ELSE Some(slug)

\* DEFAULT_BRAND_SELECTORS in order: the substrings an a[href*=...] selector
\* asks for, or the selector on [data-brand] and the brand classes
DEFAULT_BRAND_SELECTORS ==
  << [href |-> {<<"/","b","r","a","n","d","s","/">>}, cls |-> FALSE],
     [href |-> {<<"/","d","e","s","i","g","n","e","r","s","/">>}, cls |-> FALSE],
     [href |-> {<<"/","b","r","a","n","d","/">>}, cls |-> FALSE],
     [href |-> {<<"/","d","e","s","i","g","n","e","r","/">>}, cls |-> FALSE],
     [href |-> {<<"/","c","o","l","l","e","c","t","i","o","n","s","/">>}, cls |-> FALSE],
     [href |-> {<<"/","m","e","r","k","/">>}, cls |-> FALSE],
     [href |-> {<<"/","m","a","r","q","u","e","s","/">>}, cls |-> FALSE],
     [href |-> {<<"/","v","a","r","u","m","a","r","k","e","n","/">>}, cls |-> FALSE],
     [href |-> {<<"/","b","/">>}, cls |-> FALSE],
     [href |-> {}, cls |-> TRUE],
     [href |-> {<<"b","r","a","n","d">>, <<"d","e","s","i","g","n","e","r">>},
      cls |-> FALSE] >>

\* locator(sel) matches the anchor
Matches(sel, anchor) ==
  \/ sel.cls /\ anchor.named
  \/ \E s \in sel.href : Contains(anchor.href, s)

\* the candidates of one selector's elements els (positions in the page, in
\* document order): "for text, href in zip(texts, hrefs)" of
\* _extract_from_locator; each candidate is kept with the anchor it came from
RECURSIVE ScopedElements(_, _, _, _)
ScopedElements(anchors, els, acc, max_raw_items) ==
  IF els = <<>> \/ (max_raw_items # NoneV /\ Len(acc.raw) >= max_raw_items[1])
  THEN acc
  ELSE LET a    == anchors[Head(els)]
           t    == strip(a.text)
           h    == strip(a.href)
           slug == _slug_from_href(h)
           next ==
             IF BRAND_PATH_PATTERN(h)
             THEN IF slug # NoneV /\ lower(slug[1]) \notin acc.seen_slugs
                  THEN IF t # <<>> /\ ~_looks_like_button_or_noise(t)
                       THEN [raw |-> Append(acc.raw, [cand |-> t, from |-> Head(els),
                                                      pass |-> "scoped"]),
                             seen_slugs |-> acc.seen_slugs \cup {Take(lower(t), 50)}]
                       ELSE [raw |-> Append(acc.raw, [cand |-> slug[1],
                                                      from |-> Head(els),
                                                      pass |-> "scoped"]),
                             seen_slugs |-> acc.seen_slugs \cup {lower(slug[1])}]
                  ELSE acc
             ELSE IF t # <<>> /\ Len(t) > 1 /\ Len(t) < 120
                     /\ ~_looks_like_button_or_noise(t)
             THEN [acc EXCEPT !.raw = Append(@, [cand |-> t, from |-> Head(els),
                                                 pass |-> "scoped"])]
             ELSE acc
       IN  ScopedElements(anchors, Tail(els), next, max_raw_items)

\* positions of the anchors sel matches, in document order
ElementsOf(anchors, sel) ==
  SelectSeq([i \in DOMAIN anchors |-> i], LAMBDA i : Matches(sel, anchors[i]))

\* "for sel in selectors" of _extract_from_locator, from selector k on
RECURSIVE ScopedSelectors(_, _, _, _)
ScopedSelectors(anchors, k, acc, max_raw_items) ==
  IF k > Len(DEFAULT_BRAND_SELECTORS)
     \/ (max_raw_items # NoneV /\ Len(acc.raw) >= max_raw_items[1])
  THEN acc
  ELSE LET all_els == ElementsOf(anchors, DEFAULT_BRAND_SELECTORS[k])
           els == IF max_raw_items # NoneV
                     /\ Len(all_els) + Len(acc.raw) > max_raw_items[1]
                  THEN Take(all_els, max_raw_items[1] - Len(acc.raw))
                  ELSE all_els
       IN  ScopedSelectors(anchors, k + 1,
                           ScopedElements(anchors, els, acc, max_raw_items),
                           max_raw_items)

\* _extract_from_locator(scope, DEFAULT_BRAND_SELECTORS, max_raw_items) over
\* the anchors of the scope, with the default batch size
ScopedPass(anchors, max_raw_items) ==
  ScopedSelectors(anchors, 1, [raw |-> <<>>, seen_slugs |-> {}], max_raw_items).raw

\* the loop over page.locator("a[href]") of _extract_one_page_raw
RECURSIVE WholePageElements(_, _, _, _)
WholePageElements(anchors, els, raw, max_raw) ==
  IF els = <<>> \/ (max_raw # NoneV /\ Len(raw) >= max_raw[1]) THEN raw
  ELSE LET a    == anchors[Head(els)]
           t    == strip(a.text)
           h    == strip(a.href)
           slug == _slug_from_href(h)
           next ==
             IF BRAND_PATH_PATTERN(h)
             THEN IF slug # NoneV /\ _looks_like_brand(slug[1])
                  THEN Append(raw, [cand |-> slug[1], from |-> Head(els),
                                    pass |-> "whole"])
                  ELSE raw
             ELSE IF t # <<>> /\ _looks_like_brand(t) /\ ~_looks_like_button_or_noise(t)
             THEN Append(raw, [cand |-> t, from |-> Head(els), pass |-> "whole"])
             ELSE raw
       IN  WholePageElements(anchors, Tail(els), next, max_raw)

\* _extract_one_page_raw(page, max_raw) over the anchors of the page, all of
\* them inside the main container and with an href
ExtractOnePage(anchors, max_raw) ==
  LET raw == ScopedPass(anchors, max_raw) IN
  IF Len(raw) < 3 \/ (max_raw # NoneV /\ Len(raw) < max_raw[1])
  THEN LET every   == [i \in DOMAIN anchors |-> i]
           all_els == IF max_raw # NoneV
                      THEN Take(every, Max(0, max_raw[1] - Len(raw)))
                      ELSE every
       IN  WholePageElements(anchors, all_els, raw, max_raw)
  ELSE raw

MaxAnchors == 2

TextDAndG == <<"D","&","G">>
TextDG    == <<"D"," ","G">>
TextNk    == <<"N","k">>
TextShop  == <<"S","h","o","p">>

AnchorTexts == {TextDAndG, TextDG, TextNk, TextShop, <<>>}

HrefBrandsDG   == <<"/","b","r","a","n","d","s","/","d","-","g">>
HrefBrandsNk   == <<"/","b","r","a","n","d","s","/","n","k">>
HrefCollection == <<"/","c","o","l","l","e","c","t","i","o","n","s","/","n","k">>
HrefProduct    == <<"/","p","/","n","k">>

AnchorHrefs == {HrefBrandsDG, HrefBrandsNk, HrefCollection, HrefProduct}

Anchors == [text : AnchorTexts, href : AnchorHrefs, named : BOOLEAN]

\* the pages of up to n anchors
AnchorPages(n) == UNION { [1..k -> Anchors] : k \in 1..n }

NoExtraction == [raw |-> <<>>, done |-> FALSE]

AnchorInit ==
  /\ RunIdle
  /\ RestIdle
  /\ pc = "extract"
  /\ fetchIn \in [anchors : AnchorPages(MaxAnchors), max_raw : {NoneV, Some(MaxAnchors + 1)}]

\* one call of _extract_one_page_raw
ExtractPage ==
  /\ pc = "extract"
  /\ pc' = "extracted"
  /\ fetchOut' = [raw |-> ExtractOnePage(fetchIn.anchors, fetchIn.max_raw),
                  done |-> TRUE]
  /\ UNCHANGED <<fetchIn, cfg, idx, tasks, all_records, site_log, progress, call,
                 LAST_SCRAPE_STATS, shared_records, shared_errors, timed_out,
                 snapshot, completed_at_expiry>>
  /\ UNCHANGED restVars

AnchorNext == ExtractPage

AnchorSpec == AnchorInit /\ [][AnchorNext]_vars

\* ------------------------------------------------------------------------
\* Pagination walk
\* ------------------------------------------------------------------------
\* C21: within one fetch no URL is navigated to twice, the initial URL
\* included; when the next link of the page the walk stands on leads to a URL
\* already visited, the walk stops there and the fetch returns the records of
\* the pages it has, without error
NoRepeats(s) == \A i, j \in DOMAIN s : s[i] = s[j] => i = j

LastOf(s) == s[Len(s)]

\* the brands of the pages in the order walked
RECURSIVE BrandsOfPages(_)
BrandsOfPages(ps) ==
  IF ps = <<>> THEN <<>>
  ELSE [j \in 1..WalkLinks |-> ListingBrand(ps[1], j)] \o BrandsOfPages(Tail(ps))

Loaded(site, ps) == SelectSeq(ps, LAMBDA i : site.pages[i].nav = StatusResp(200))

NoRevisit ==
  fetchOut # NoFetch =>
    LET v == fetchOut.visited site == fetchIn.site IN
    /\ NoRepeats(v)
    /\ (/\ v # <<>>
        /\ site.pages[LastOf(v)].nav = StatusResp(200)
        /\ site.pages[LastOf(v)].next \in Range(v))
       => /\ fetchOut.error = NoError
          /\ [i \in DOMAIN fetchOut.records |-> fetchOut.records[i].brand]
               = BrandsOfPages(Loaded(site, v))

NoRevisitWitness ==
  /\ fetchOut # NoFetch
  /\ Len(fetchOut.visited) >= 2
  /\ Len(fetchOut.visited) < fetchIn.max_pages
  /\ fetchIn.site.pages[LastOf(fetchOut.visited)].nav = StatusResp(200)
  /\ fetchIn.site.pages[LastOf(fetchOut.visited)].next \in Range(fetchOut.visited)
  /\ Len(fetchOut.records) = 2 * WalkLinks

\* C22: one fetch navigates to at most max(1, maxPages) listing URLs, the
\* initial URL counted, however many distinct next pages the site offers
PageBudgetRespected ==
  fetchOut # NoFetch =>
    /\ Len(fetchOut.visited) <= Max(1, fetchIn.max_pages)
    /\ Len(fetchOut.visited) >= 1

\* the walk was cut while the page it stands on offers a page not yet visited
PageBudgetWitness ==
  /\ fetchOut # NoFetch
  /\ fetchIn.max_pages = 2
  /\ Len(fetchOut.visited) = 2
  /\ fetchIn.site.pages[LastOf(fetchOut.visited)].nav = StatusResp(200)
  /\ fetchIn.site.pages[LastOf(fetchOut.visited)].next
       \notin {0} \cup Range(fetchOut.visited)
  /\ fetchOut.error = NoError

\* ------------------------------------------------------------------------
\* Retry loop
\* ------------------------------------------------------------------------
\* C23: the retry loop of a task ends only when an attempt has returned at
\* least one record or when maxRetries + 1 attempts have been made
RetryLoopEndsOnRecordsOrBudget ==
  \A t \in DOMAIN tasks :
    (tasks[t].st = "done" /\ cfg.retailers[t].brand_list_url # "")
      => \/ tasks[t].fetched # <<>>
         \/ tasks[t].attempts >= cfg.max_retries + 1

\* C24: when the navigation to a next page fails after at least one page has
\* been extracted, the walk stops at that page and the fetch returns the
\* records of the pages extracted so far, with no error and not blocked
FailedNavigations ==
  { i \in Range(fetchOut.visited) : fetchIn.site.pages[i].nav # StatusResp(200) }

NextPageFailureKeepsRecords ==
  (fetchOut # NoFetch /\ FailedNavigations # {}) =>
    LET v == fetchOut.visited IN
    /\ FailedNavigations = {LastOf(v)}
    /\ fetchOut.error = NoError
    /\ fetchOut.blocked = FALSE
    /\ [i \in DOMAIN fetchOut.records |-> fetchOut.records[i].brand]
         = BrandsOfPages(Take(v, Len(v) - 1))
    /\ fetchOut.stats # NoneV

\* two pages were extracted before a navigation answered 403
NextPageFailureWitness ==
  /\ fetchOut # NoFetch
  /\ Len(fetchOut.visited) = 3
  /\ fetchIn.site.pages[LastOf(fetchOut.visited)].nav = StatusResp(403)
  /\ Len(fetchOut.records) = 2 * WalkLinks

\* ------------------------------------------------------------------------
\* Extraction of one page
\* ------------------------------------------------------------------------
\* C25: within one page extraction each anchor contributes at most one raw
\* candidate to the selector pass, however many selectors match it
ScopedFrom(i) ==
  { k \in DOMAIN fetchOut.raw :
      fetchOut.raw[k].pass = "scoped" /\ fetchOut.raw[k].from = i }

AnchorContributesOnce ==
  pc = "extracted" =>
    \A i \in DOMAIN fetchIn.anchors : Cardinality(ScopedFrom(i)) <= 1

\* C26: the whole-page scan decides on an anchor as the selector pass does:
\* both take it or both leave it, and both choose the same candidate string
WholeFrom(i) ==
  { k \in DOMAIN fetchOut.raw :
      fetchOut.raw[k].pass = "whole" /\ fetchOut.raw[k].from = i }

CandidatesOfPass(ks) == { fetchOut.raw[k].cand : k \in ks }

\* the one anchor of the page is matched by a selector and both passes ran
\* over it
BothPassesRan ==
  /\ pc = "extracted"
  /\ Len(fetchIn.anchors) = 1
  /\ fetchIn.max_raw = NoneV
  /\ \E k \in DOMAIN DEFAULT_BRAND_SELECTORS :
        Matches(DEFAULT_BRAND_SELECTORS[k], fetchIn.anchors[1])
  /\ Cardinality(ScopedFrom(1)) < 3

FallbackClassifiesAsScoped ==
  BothPassesRan => CandidatesOfPass(WholeFrom(1)) = CandidatesOfPass(ScopedFrom(1))

\* ------------------------------------------------------------------------
\* Scrape statistics
\* ------------------------------------------------------------------------
\* C27: after every fetch of a source, successful or not, the ScrapeStats
\* entry of the source describes that fetch: the counts of a successful fetch,
\* and for a failed fetch no counts or counts of zero, never those of an
\* earlier fetch
NoCounts == {NoneV, Some([raw_count |-> 0, filtered_count |-> 0])}

StatsDescribeLastFetch ==
  pc \in {"second_fetch", "fetched_twice"} =>
    IF fetchOut.error = NoError
    THEN /\ LAST_SCRAPE_STATS[SourceNames[1]] = fetchOut.stats
         /\ fetchOut.stats # NoneV
         /\ fetchOut.stats[1].filtered_count = Len(fetchOut.records)
    ELSE LAST_SCRAPE_STATS[SourceNames[1]] \in NoCounts

\* ------------------------------------------------------------------------
\* Pages
\* ------------------------------------------------------------------------
\* C28: the page an attempt opens is closed before the task's next attempt
\* starts or the task finishes, on either path and however the attempt ends:
\* between attempts no task holds an open page
AttemptPagesClosed ==
  \A t \in DOMAIN tasks : tasks[t].open_pages = 0

\* ------------------------------------------------------------------------
\* Progress accounting
\* ------------------------------------------------------------------------
RECURSIVE SumAdded(_)
SumAdded(p) == IF p = <<>> THEN 0 ELSE Head(p).n + SumAdded(Tail(p))

\* the step invokes on_progress
Invokes == Len(progress') = Len(progress) + 1

\* C29: the list passed to an onProgress invocation is the list of the
\* previous invocation with exactly recordsAdded records appended, nothing
\* removed or reordered, and the list changes at no other step; so the sum of
\* recordsAdded over all invocations is the length of the list run returns
ProgressAccumulates ==
  /\ [](SumAdded(progress) = Len(all_records))
  /\ [][IF Invokes
        THEN LET e == progress'[Len(progress')] IN
             /\ Len(all_records') = Len(all_records) + e.n
             /\ SubSeq(all_records', 1, Len(all_records)) = all_records
             /\ e.total = Len(all_records')
        ELSE all_records' = all_records]_vars

\* the run has returned after two invocations that each appended records
ProgressAccumulatesWitness ==
  /\ pc = "returned"
  /\ Len(progress) = 2
  /\ progress[1].n > 0
  /\ progress[2].n > 0
  /\ progress[2].total = progress[1].n + progress[2].n
  /\ Len(all_records) = progress[2].total

\* ------------------------------------------------------------------------
\* The snapshot taken at the deadline
\* ------------------------------------------------------------------------
\* the callbacks that have run to their end
CompletedCallbacks ==
  Len(progress) - (IF pc \in {"on_progress", "on_progress_extend"} THEN 1 ELSE 0)

\* C30: the partial result taken when the deadline expires is the accumulated
\* list as of some completed progress callback, or empty when none has
\* completed, whatever the worker thread is doing at that moment
SnapshotIsCallbackState ==
  [][(~timed_out /\ timed_out') =>
       IF CompletedCallbacks = 0 THEN snapshot' = <<>>
       ELSE \E k \in 1..CompletedCallbacks :
               snapshot' = Take(all_records, progress[k].total)]_vars
====
